---------------------------- MODULE Spec2Model ----------------------------
(***************************************************************************)
(* A model of the web research engine of src/modules/web_browser.py        *)
(* (class WebBrowser) and of the content filter of src/utils/security.py.  *)
(*                                                                         *)
(* Text is modelled as a sequence of lexemes.  A query text is a sequence  *)
(* of one-character lexemes.  A URL is a sequence of lexemes at the        *)
(* granularity at which urllib.parse splits it: words ("http",             *)
(* "localhost"), decimal numbers ("127") and the separators ":", "//",     *)
(* "/", "@", "[", "]", ".".  Every conversion (lower-casing, urlparse,     *)
(* ipaddress.ip_address) is computed on these sequences.                   *)
(***************************************************************************)
EXTENDS Integers, Sequences, FiniteSets, TLC

VARIABLES
    enabled,         \* self._enabled (capabilities.web_browsing)
    filter_enabled,  \* config value security.content_filter.enabled
    search_cache,    \* self._search_cache: cache key -> result list
    visited_urls,    \* self._visited_urls: url -> page data
    pc,              \* position of the call in flight: "idle" when none
    req,             \* the arguments of the call in flight or last completed
    net,             \* what the call did on the network and to the caches
    result,          \* the dictionary the last completed call returned
    calls,           \* number of calls started on this instance
    fetched_ok,      \* history: the URLs a fetch_page call has succeeded for
    probe            \* input and output of the pure function under test

vars == <<enabled, filter_enabled, search_cache, visited_urls, pc, req, net,
          result, calls, fetched_ok, probe>>

---------------------------------------------------------------------------
(* Bounds of the model. *)

\* Calls started on one instance.
MaxCalls == 2

\* Largest max_results / max_pages argument a caller passes.
MaxN == 2

---------------------------------------------------------------------------
(* Sequences of lexemes. *)

\* str.find: index of the first element of s that lies in set, 0 if none.
RECURSIVE FindFrom(_, _, _)
FindFrom(s, set, i) ==
    IF i > Len(s) THEN 0
    ELSE IF s[i] \in set THEN i
    ELSE FindFrom(s, set, i + 1)

Find(s, set) == FindFrom(s, set, 1)

\* str.rfind: index of the last element of s that lies in set, 0 if none.
RECURSIVE RFindFrom(_, _, _)
RFindFrom(s, set, i) ==
    IF i < 1 THEN 0
    ELSE IF s[i] \in set THEN i
    ELSE RFindFrom(s, set, i - 1)

RFind(s, set) == RFindFrom(s, set, Len(s))

Prefix(s, n) == SubSeq(s, 1, IF n < Len(s) THEN n ELSE Len(s))

Suffix(s, i) == SubSeq(s, i, Len(s))

\* sub in s, for sequences (Python's substring test).
Contains(s, sub) ==
    \E i \in 1..(Len(s) - Len(sub) + 1) : SubSeq(s, i, i + Len(sub) - 1) = sub

\* The upper-case lexemes of the model and their lower-case forms.
UpperToLower ==
    [x \in {"HTTP", "HTTPS", "LOCALHOST", "B", "A", "D"} |->
        CASE x = "HTTP" -> "http"
          [] x = "HTTPS" -> "https"
          [] x = "LOCALHOST" -> "localhost"
          [] x = "B" -> "b"
          [] x = "A" -> "a"
          [] x = "D" -> "d"]

LowerLexeme(x) == IF x \in DOMAIN UpperToLower THEN UpperToLower[x] ELSE x

\* str.lower
Lower(s) == [i \in 1..Len(s) |-> LowerLexeme(s[i])]

---------------------------------------------------------------------------
(* urllib.parse.urlparse and ipaddress.ip_address, as _is_safe_url uses    *)
(* them.                                                                   *)

\* Lexemes that begin with an ASCII letter.
AlphaWords ==
    {"http", "HTTP", "https", "HTTPS", "ftp", "file", "javascript",
     "localhost", "LOCALHOST", "example", "com", "org", "user", "secret",
     "news", "docs", "fe80", "fc00", "google", "bing", "baidu"}

\* Decimal numbers without a leading zero.
DecLexemes == {ToString(n) : n \in 0..299}

\* int(x) for a decimal lexeme.
DecTable == [x \in DecLexemes |-> CHOOSE n \in 0..299 : ToString(n) = x]

DecVal(x) == DecTable[x]

\* The hexadecimal groups of the IPv6 literals of the model.
HexVal ==
    [x \in {"0", "1", "100", "2001", "2606", "fc00", "fe80"} |->
        CASE x = "0" -> 0
          [] x = "1" -> 1
          [] x = "100" -> 256
          [] x = "2001" -> 8193
          [] x = "2606" -> 9734
          [] x = "fc00" -> 64512
          [] x = "fe80" -> 65152]

\* Lexemes made of scheme characters only (letters, digits, "+", "-", ".").
SchemeLexemes == AlphaWords \cup DecLexemes \cup DOMAIN HexVal \cup {".", "+", "-"}

ParseError == [error |-> TRUE]

\* ipaddress.ip_address(host): the parsed address, or ParseError for the
\* ValueError.  IPv4 is four decimal groups 0..255 without leading zeros;
\* IPv6 is read in the forms "::", "::h" and "g::h".
ip_address(host) ==
    IF /\ Len(host) = 7
       /\ \A i \in {2, 4, 6} : host[i] = "."
       /\ \A i \in {1, 3, 5, 7} : host[i] \in DecLexemes /\ DecVal(host[i]) <= 255
    THEN [error |-> FALSE, version |-> 4,
          groups |-> <<DecVal(host[1]), DecVal(host[3]), DecVal(host[5]), DecVal(host[7])>>]
    ELSE IF host = <<":", ":">>
    THEN [error |-> FALSE, version |-> 6, groups |-> <<0, 0, 0, 0, 0, 0, 0, 0>>]
    ELSE IF Len(host) = 3 /\ host[1] = ":" /\ host[2] = ":" /\ host[3] \in DOMAIN HexVal
    THEN [error |-> FALSE, version |-> 6,
          groups |-> <<0, 0, 0, 0, 0, 0, 0, HexVal[host[3]]>>]
    ELSE IF /\ Len(host) = 4
            /\ host[1] \in DOMAIN HexVal /\ host[2] = ":" /\ host[3] = ":"
            /\ host[4] \in DOMAIN HexVal
    THEN [error |-> FALSE, version |-> 6,
          groups |-> <<HexVal[host[1]], 0, 0, 0, 0, 0, 0, HexVal[host[4]]>>]
    ELSE ParseError

\* IPv4Address.is_loopback / IPv6Address.is_loopback
is_loopback(ip) ==
    IF ip.version = 4 THEN ip.groups[1] = 127
    ELSE ip.groups = <<0, 0, 0, 0, 0, 0, 0, 1>>

\* is_link_local: 169.254.0.0/16, fe80::/10
is_link_local(ip) ==
    IF ip.version = 4 THEN ip.groups[1] = 169 /\ ip.groups[2] = 254
    ELSE ip.groups[1] >= 65152 /\ ip.groups[1] <= 65215

\* is_private: membership in ipaddress's _private_networks.
is_private(ip) ==
    LET g == ip.groups IN
    IF ip.version = 4 THEN
        \/ g[1] = 0                                            \* 0.0.0.0/8
        \/ g[1] = 10                                           \* 10.0.0.0/8
        \/ g[1] = 127                                          \* 127.0.0.0/8
        \/ g[1] = 169 /\ g[2] = 254                            \* 169.254.0.0/16
        \/ g[1] = 172 /\ g[2] >= 16 /\ g[2] <= 31              \* 172.16.0.0/12
        \/ g[1] = 192 /\ g[2] = 0 /\ g[3] = 0 /\ g[4] <= 7     \* 192.0.0.0/29
        \/ g[1] = 192 /\ g[2] = 0 /\ g[3] = 0 /\ g[4] \in {170, 171}
        \/ g[1] = 192 /\ g[2] = 0 /\ g[3] = 2                  \* 192.0.2.0/24
        \/ g[1] = 192 /\ g[2] = 168                            \* 192.168.0.0/16
        \/ g[1] = 198 /\ g[2] \in {18, 19}                     \* 198.18.0.0/15
        \/ g[1] = 198 /\ g[2] = 51 /\ g[3] = 100               \* 198.51.100.0/24
        \/ g[1] = 203 /\ g[2] = 0 /\ g[3] = 113                \* 203.0.113.0/24
        \/ g[1] >= 240                                         \* 240.0.0.0/4
    ELSE
        \/ g = <<0, 0, 0, 0, 0, 0, 0, 1>>                      \* ::1/128
        \/ g = <<0, 0, 0, 0, 0, 0, 0, 0>>                      \* ::/128
        \/ g[1] = 256 /\ g[2] = 0 /\ g[3] = 0 /\ g[4] = 0      \* 100::/64
        \/ g[1] = 8193 /\ g[2] < 512                           \* 2001::/23
        \/ g[1] >= 64512 /\ g[1] <= 65023                      \* fc00::/7
        \/ g[1] >= 65152 /\ g[1] <= 65215                      \* fe80::/10

\* urlsplit's scheme: the lexemes before the first ":" when there is one,
\* they are scheme characters and the first begins with a letter; lower-cased.
UrlSchemeLen(url) ==
    LET i == Find(url, {":"}) IN
    IF /\ i > 1
       /\ url[1] \in AlphaWords
       /\ \A k \in 1..(i - 1) : url[k] \in SchemeLexemes
    THEN i - 1 ELSE 0

\* The text between "[" and "]" of a netloc.
BracketedHost(netloc) ==
    LET open == Find(netloc, {"["})
        after == Suffix(netloc, open + 1)
        close == Find(after, {"]"})
    IN IF close = 0 THEN after ELSE Prefix(after, close - 1)

\* SplitResult.hostname: after the last "@"; the bracketed text if there is a
\* "[", else up to the first ":"; lower-cased.  <<>> stands for None.
HostnameOf(netloc) ==
    LET at == RFind(netloc, {"@"})
        hostinfo == Suffix(netloc, at + 1)
        colon == Find(hostinfo, {":"})
    IN IF Find(hostinfo, {"["}) > 0 THEN Lower(BracketedHost(hostinfo))
       ELSE IF colon = 0 THEN Lower(hostinfo)
       ELSE Lower(Prefix(hostinfo, colon - 1))

\* urlsplit raises ValueError for unbalanced brackets and for a bracketed
\* host that is not an IPv6 address.
NetlocRaises(netloc) ==
    LET hasOpen == Find(netloc, {"["}) > 0
        hasClose == Find(netloc, {"]"}) > 0
    IN \/ hasOpen /\ ~hasClose
       \/ hasClose /\ ~hasOpen
       \/ /\ hasOpen /\ hasClose
          /\ LET ip == ip_address(BracketedHost(netloc))
             IN ip.error \/ ip.version # 6

\* urllib.parse.urlparse(url): scheme, netloc (after a leading "//", up to
\* the first "/", "?" or "#"), path (what follows the netloc), hostname, and
\* whether the call raises.
urlparse(url) ==
    LET n == UrlSchemeLen(url)
        rest == IF n > 0 THEN Suffix(url, n + 2) ELSE url
        slashes == Len(rest) > 0 /\ rest[1] = "//"
        tail == IF slashes THEN Suffix(rest, 2) ELSE <<>>
        d == Find(tail, {"/", "//", "?", "#"})
        netloc == IF d = 0 THEN tail ELSE Prefix(tail, d - 1)
    IN [scheme |-> Lower(Prefix(url, n)),
        netloc |-> netloc,
        path |-> IF slashes THEN Suffix(tail, Len(netloc) + 1) ELSE rest,
        hostname |-> HostnameOf(netloc),
        raises |-> NetlocRaises(netloc)]

UrlScheme(url) == urlparse(url).scheme

UrlNetloc(url) == urlparse(url).netloc

UrlHostname(url) == urlparse(url).hostname

UrlParseRaises(url) == urlparse(url).raises

\* The host names _is_safe_url refuses by name.
BlockedHostnames ==
    { <<"localhost">>,
      <<"127", ".", "0", ".", "0", ".", "1">>,
      <<"0", ".", "0", ".", "0", ".", "0">>,
      <<":", ":", "1">> }

\* A plausible slip: the loopback and link-local tests without the private one.
is_safe_url_no_private(url) ==
    LET parsed == urlparse(url) IN
    IF parsed.raises THEN FALSE
    ELSE IF parsed.scheme = <<>> \/ parsed.netloc = <<>> THEN FALSE
    ELSE IF parsed.scheme \notin {<<"http">>, <<"https">>} THEN FALSE
    ELSE IF parsed.hostname \in BlockedHostnames THEN FALSE
    ELSE IF parsed.hostname # <<>>
    THEN LET ip == ip_address(parsed.hostname)
         IN IF ip.error THEN TRUE
            ELSE ~(is_loopback(ip) \/ is_link_local(ip))
    ELSE TRUE

\* WebBrowser._is_safe_url
is_safe_url(url) ==
    LET parsed == urlparse(url) IN
    IF parsed.raises THEN FALSE
    ELSE IF parsed.scheme = <<>> \/ parsed.netloc = <<>> THEN FALSE
    ELSE IF parsed.scheme \notin {<<"http">>, <<"https">>} THEN FALSE
    ELSE IF parsed.hostname \in BlockedHostnames THEN FALSE
    ELSE IF parsed.hostname # <<>>
    THEN LET ip == ip_address(parsed.hostname)
         IN IF ip.error THEN TRUE
            ELSE ~(is_private(ip) \/ is_loopback(ip) \/ is_link_local(ip))
    ELSE TRUE

---------------------------------------------------------------------------
(* The URLs the model passes to _is_safe_url and fetch_page. *)

SchemeParts ==
    { <<"http", ":">>, <<"HTTP", ":">>, <<"https", ":">>, <<"ftp", ":">>,
      <<"file", ":">>, <<>> }

UserinfoParts == { <<>>, <<"user", "@">> }

PortParts == { <<>>, <<":", "80">> }

PathParts == { <<>>, <<"/", "secret">> }

\* Host names and IPv6 literals, well-formed and not.
NamedHosts ==
    { <<>>,
      <<"localhost">>, <<"LOCALHOST">>, <<"localhost", ".">>,
      <<"example", ".", "com">>,
      <<"127", ".", "1">>,
      <<"[", ":", ":", "1", "]">>, <<"[", ":", ":", "]">>,
      <<"[", "fe80", ":", ":", "1", "]">>, <<"[", "fc00", ":", ":", "1", "]">>,
      <<"[", "2001", ":", ":", "1", "]">>, <<"[", "2606", ":", ":", "1", "]">>,
      <<"[", "100", ":", ":", "1", "]">>,
      <<":", ":", "1">>,
      <<"[", "example", "]">>, <<"[", ":", ":", "1">> }

FirstOctets == {0, 8, 10, 100, 127, 169, 172, 192, 198, 203, 224, 240, 256}
SecondOctets == {0, 16, 18, 31, 32, 51, 168, 254}
ThirdOctets == {0, 2, 100, 113}
FourthOctets == {0, 1, 8, 170}

IPv4Hosts ==
    { <<ToString(a), ".", ToString(b), ".", ToString(c), ".", ToString(d)>> :
        a \in FirstOctets, b \in SecondOctets, c \in ThirdOctets, d \in FourthOctets }

ProbeUrls ==
    { s \o <<"//">> \o u \o h \o p \o t :
        s \in SchemeParts, u \in UserinfoParts, h \in NamedHosts,
        p \in PortParts, t \in PathParts }
    \cup { <<"http", ":", "//">> \o h \o t : h \in IPv4Hosts, t \in PathParts }
    \cup { <<"example", ".", "com">>, <<"javascript", ":", "secret">>,
           <<"localhost", ":", "80", "/", "secret">>,
           <<"http", ":", "/", "secret">>, <<"/", "secret">> }

---------------------------------------------------------------------------
(* SecurityManager.check_content_safety (src/utils/security.py). *)

\* self._blocked_keywords, read from the configuration at construction.
blocked_keywords == { <<"b", "A", "D">> }

\* check_content_safety(content) under the current configuration: allowed,
\* and as reason the keyword that was found.
check_content_safety(content, filterOn) ==
    IF ~filterOn THEN [allowed |-> TRUE, reason |-> <<>>]
    ELSE LET hits == { k \in blocked_keywords : Contains(Lower(content), Lower(k)) }
         IN IF hits # {}
            THEN [allowed |-> FALSE, reason |-> CHOOSE k \in hits : TRUE]
            ELSE [allowed |-> TRUE, reason |-> <<>>]

---------------------------------------------------------------------------
(* The returned error texts, the engines and the retry budget.  An error  *)
(* or reason field is a sequence of text pieces.                            *)

ERR_NOT_ENABLED == "web browsing not enabled"      \* '网络浏览功能未启用'
ERR_CONTENT == "content safety check failed"       \* '内容安全检查失败'
ERR_SEARCH_FAILED == "search failed"               \* '搜索失败'
ERR_UNSAFE_URL == "URL unsafe or malformed"        \* 'URL不安全或格式无效'
ERR_TIMEOUT == "request timed out"                 \* '请求超时'
ERR_HTTP == "HTTP error"                           \* 'HTTP错误: {status}'
ERR_EXCEPTION == "exception text"                  \* str(e)

\* self._max_retries (advanced.max_retries, default 3)
max_retries == 3

\* WebBrowser.SEARCH_ENGINES: engine -> the template up to "{query}".
SEARCH_ENGINES ==
    [e \in { <<"google">>, <<"bing">>, <<"baidu">>, <<"duckduckgo">> } |->
        CASE e = <<"google">> ->
               <<"https", ":", "//", "www", ".", "google", ".", "com", "/", "search", "?", "q", "=">>
          [] e = <<"bing">> ->
               <<"https", ":", "//", "www", ".", "bing", ".", "com", "/", "search", "?", "q", "=">>
          [] e = <<"baidu">> ->
               <<"https", ":", "//", "www", ".", "baidu", ".", "com", "/", "s", "?", "wd", "=">>
          [] e = <<"duckduckgo">> ->
               <<"https", ":", "//", "duckduckgo", ".", "com", "/", "?", "q", "=">>]

\* str.replace(' ', '+')
ReplaceSpaces(q) == [i \in 1..Len(q) |-> IF q[i] = " " THEN "+" ELSE q[i]]

\* A plausible slip: an unregistered identifier is kept.
NormalizeEngine_kept(engine) == engine

\* The engine search uses after "if engine not in self.SEARCH_ENGINES".
NormalizeEngine(engine) ==
    IF engine \notin DOMAIN SEARCH_ENGINES THEN <<"baidu">> ELSE engine

\* search_url = self.SEARCH_ENGINES[engine].format(query=query.replace(' ', '+'))
SearchUrl(engine, query) == SEARCH_ENGINES[NormalizeEngine(engine)] \o ReplaceSpaces(query)

\* cache_key = f"{engine}:{query}"
SearchCacheKey(engine, query) == engine \o <<":">> \o query

---------------------------------------------------------------------------
(* Result pages and the parsing strategies.                                *)
(*                                                                         *)
(* A result page is the sequence of elements the engine's selector matches *)
(* (items) and the sequence of all anchors with an href (links).  An item  *)
(* records whether its title element and its anchor were found, and the    *)
(* texts and href read from them; href is <<>> when the attribute is       *)
(* missing (link.get('href', '')).                                         *)

Item(te, le, title, href, desc) ==
    [title_elem |-> te, link_elem |-> le, title |-> title, href |-> href,
     description |-> desc]

Anchor(href, text) == [href |-> href, text |-> text]

SearchResult(title, url, desc, source) ==
    [title |-> title, url |-> url, description |-> desc, source |-> source]

\* _parse_baidu_results and _parse_bing_results: one entry per item among the
\* first max_results whose title anchor was found.
RECURSIVE ParseTitleAnchorItems(_, _)
ParseTitleAnchorItems(items, source) ==
    IF items = <<>> THEN <<>>
    ELSE LET item == Head(items)
             rest == ParseTitleAnchorItems(Tail(items), source)
         IN IF ~item.title_elem THEN rest
            ELSE <<SearchResult(item.title, item.href, item.description, source)>> \o rest

parse_baidu_results(page, max_results) ==
    ParseTitleAnchorItems(Prefix(page.items, max_results), "baidu")

parse_bing_results(page, max_results) ==
    ParseTitleAnchorItems(Prefix(page.items, max_results), "bing")

\* _parse_google_results: the title (h3) and the anchor are separate elements
\* and both must be found.
RECURSIVE ParseGoogleItems(_)
ParseGoogleItems(items) ==
    IF items = <<>> THEN <<>>
    ELSE LET item == Head(items)
             rest == ParseGoogleItems(Tail(items))
         IN IF ~item.title_elem \/ ~item.link_elem THEN rest
            ELSE <<SearchResult(item.title, item.href, item.description, "google")>> \o rest

parse_google_results(page, max_results) ==
    ParseGoogleItems(Prefix(page.items, max_results))

\* Lexemes that begin with the characters "http".
HttpPrefixed == {"http", "https"}

\* The hosts _parse_generic_results excludes, as substrings of the href.
ExcludedHosts ==
    { <<"google", ".", "com">>, <<"bing", ".", "com">>, <<"baidu", ".", "com">> }

\* _parse_generic_results: scans links[:max_results * 2] and stops once
\* max_results entries are collected.
RECURSIVE ParseGenericLinks(_, _, _)
ParseGenericLinks(links, acc, max_results) ==
    IF links = <<>> THEN acc
    ELSE LET link == Head(links)
             keep == /\ Len(link.href) > 0
                     /\ link.href[1] \in HttpPrefixed
                     /\ ~\E x \in ExcludedHosts : Contains(link.href, x)
                     /\ Len(link.text) > 3
             acc2 == IF keep
                     THEN Append(acc, SearchResult(link.text, link.href, <<>>, "generic"))
                     ELSE acc
         IN IF keep /\ Len(acc2) >= max_results THEN acc2
            ELSE ParseGenericLinks(Tail(links), acc2, max_results)

parse_generic_results(page, max_results) ==
    ParseGenericLinks(Prefix(page.links, max_results * 2), <<>>, max_results)

\* The strategy _fetch_search_results applies for an engine.
ParseResults(engine, page, max_results) ==
    IF engine = <<"baidu">> THEN parse_baidu_results(page, max_results)
    ELSE IF engine = <<"google">> THEN parse_google_results(page, max_results)
    ELSE IF engine = <<"bing">> THEN parse_bing_results(page, max_results)
    ELSE parse_generic_results(page, max_results)

---------------------------------------------------------------------------
(* The inputs of the model: query texts, engines, pages, network outcomes. *)

Queries == { <<"w">>, <<"B", "a", "d">> }

\* Three registered engines and an identifier that is not registered.
Engines == { <<"baidu">>, <<"duckduckgo">>, <<"x">> }

UrlExample == <<"http", ":", "//", "example", ".", "com">>
UrlDocs == <<"https", ":", "//", "docs", ".", "example", ".", "org", "/", "docs">>
UrlNews == <<"http", ":", "//", "news", ".", "example", ".", "com", "/", "news">>
UrlLoopback == <<"http", ":", "//", "127", ".", "0", ".", "0", ".", "1", "/", "secret">>
UrlPrivate == <<"http", ":", "//", "user", "@", "10", ".", "0", ".", "0", ".", "8", ":", "80">>
UrlLinkLocal == <<"https", ":", "//", "[", "fe80", ":", ":", "1", "]", "/", "secret">>
UrlFtp == <<"ftp", ":", "//", "example", ".", "com">>
UrlNoHost == <<"http", ":", "//", ":", "80", "/", "secret">>
UrlGoogle == <<"https", ":", "//", "www", ".", "google", ".", "com", "/", "news">>

TextNews == <<"n", "e", "w", "s">>
TextDocs == <<"d", "o", "c", "s", "!">>
TextGo == <<"g", "o">>
TextAbout == <<"a", "b", "o", "u", "t">>

\* A page on which no selector matches and that holds no anchor.
PageEmpty == [items |-> <<>>, links |-> <<>>]

\* A result page: four matched items, the third without a title element, and
\* five anchors of which the first and the last qualify for the generic
\* strategy.
PageResults ==
    [items |-> << Item(TRUE, TRUE, TextNews, UrlNews, TextAbout),
                  Item(TRUE, TRUE, TextDocs, UrlDocs, <<>>),
                  Item(FALSE, TRUE, <<>>, UrlExample, TextAbout),
                  Item(TRUE, FALSE, TextAbout, UrlExample, TextGo) >>,
     links |-> << Anchor(UrlNews, TextNews),
                  Anchor(UrlDocs, TextGo),
                  Anchor(UrlGoogle, TextAbout),
                  Anchor(<<"/", "secret">>, TextDocs),
                  Anchor(UrlExample, TextAbout) >>]

\* A page on which the engine's selector matches nothing but that holds
\* qualifying anchors.
PageLinksOnly ==
    [items |-> <<>>,
     links |-> << Anchor(UrlDocs, TextDocs), Anchor(UrlExample, TextAbout),
                  Anchor(UrlNews, TextNews) >>]

SearchPages == { PageEmpty, PageResults, PageLinksOnly }

\* What one HTTP GET of a search attempt ends in: a non-200 status, a
\* timeout, another exception, or a 200 response with a page.
SearchOutcomes ==
    { [kind |-> k, page |-> PageEmpty] : k \in {"status", "timeout", "error"} }
    \cup { [kind |-> "ok", page |-> p] : p \in SearchPages }

---------------------------------------------------------------------------
(* The state of a call and the initial state. *)

EmptyCache == [k \in {} |-> <<>>]

\* A plausible slip: an entry that exists is kept (dict.setdefault).
CachePut_keep_first(cache, key, value) == cache @@ (key :> value)

\* A plausible slip: the assignment to the cache is left out.
CachePut_dropped(cache, key, value) == cache

\* A plausible slip: the store replaces the dictionary.
CachePut_evicting(cache, key, value) == (key :> value)

\* cache[key] = value
CachePut(cache, key, value) == (key :> value) @@ cache

\* No call has returned yet.
Pending == [pending |-> TRUE]

NoRequest == [op |-> "none"]

NoProbe == [url |-> <<>>, done |-> FALSE, safe |-> FALSE]

\* gets: HTTP GETs issued by the call; attempt: loop iterations completed;
\* slept: the asyncio.sleep after the latest attempt (0: none); outcome: how
\* the latest GET ended; no200: no GET of the call got a 200 response;
\* results: the loop's results variable; cache_read: the call looked its key
\* up in the cache.
NetIdle ==
    [gets |-> 0, attempt |-> 0, slept |-> 0, outcome |-> "none", no200 |-> TRUE,
     results |-> <<>>, cache_read |-> FALSE]

Init ==
    /\ enabled \in BOOLEAN
    /\ filter_enabled \in BOOLEAN
    /\ search_cache = EmptyCache
    /\ visited_urls = EmptyCache
    /\ pc = "idle"
    /\ req = NoRequest
    /\ net = NetIdle
    /\ result = Pending
    /\ calls = 0
    /\ fetched_ok = {}
    /\ probe = NoProbe

---------------------------------------------------------------------------
(* ConfigLoader.set('security.content_filter.enabled', v): the filter       *)
(* switch is read from the configuration at every check.                   *)

ConfigSet(v) ==
    /\ pc = "idle"
    /\ v # filter_enabled
    /\ filter_enabled' = v
    /\ UNCHANGED <<enabled, search_cache, visited_urls, pc, req, net, result,
                   calls, fetched_ok, probe>>

---------------------------------------------------------------------------
(* WebBrowser.search and WebBrowser._fetch_search_results.                 *)

\* A plausible slip: search does not test the capability switch.
SearchEntry_no_enabled_check(query, engine, use_cache) ==
    LET safety == check_content_safety(query, filter_enabled)
        cache_key == SearchCacheKey(engine, query)
    IN IF ~safety.allowed
       THEN [go |-> FALSE, cache_read |-> FALSE,
             result |-> [success |-> FALSE, error |-> <<ERR_CONTENT>>,
                         reason |-> safety.reason]]
       ELSE IF use_cache /\ cache_key \in DOMAIN search_cache
       THEN [go |-> FALSE, cache_read |-> TRUE,
             result |-> [success |-> TRUE, results |-> search_cache[cache_key],
                         cached |-> TRUE]]
       ELSE [go |-> TRUE, cache_read |-> use_cache, result |-> Pending]

\* A plausible slip: the cache lookup is left out.
SearchEntry_no_lookup(query, engine, use_cache) ==
    LET safety == check_content_safety(query, filter_enabled)
    IN IF ~enabled
       THEN [go |-> FALSE, cache_read |-> FALSE,
             result |-> [success |-> FALSE, error |-> <<ERR_NOT_ENABLED>>]]
       ELSE IF ~safety.allowed
       THEN [go |-> FALSE, cache_read |-> FALSE,
             result |-> [success |-> FALSE, error |-> <<ERR_CONTENT>>,
                         reason |-> safety.reason]]
       ELSE [go |-> TRUE, cache_read |-> FALSE, result |-> Pending]

\* A plausible slip: the cache lookup placed before the content check.
SearchEntry_cache_first(query, engine, use_cache) ==
    LET safety == check_content_safety(query, filter_enabled)
        cache_key == SearchCacheKey(engine, query)
    IN IF ~enabled
       THEN [go |-> FALSE, cache_read |-> FALSE,
             result |-> [success |-> FALSE, error |-> <<ERR_NOT_ENABLED>>]]
       ELSE IF use_cache /\ cache_key \in DOMAIN search_cache
       THEN [go |-> FALSE, cache_read |-> TRUE,
             result |-> [success |-> TRUE, results |-> search_cache[cache_key],
                         cached |-> TRUE]]
       ELSE IF ~safety.allowed
       THEN [go |-> FALSE, cache_read |-> FALSE,
             result |-> [success |-> FALSE, error |-> <<ERR_CONTENT>>,
                         reason |-> safety.reason]]
       ELSE [go |-> TRUE, cache_read |-> use_cache, result |-> Pending]

\* The part of search before the first await: the capability switch, the
\* content check and the cache lookup.  go: the call continues to the
\* network.
SearchEntry(query, engine, use_cache) ==
    LET safety == check_content_safety(query, filter_enabled)
        cache_key == SearchCacheKey(engine, query)
    IN IF ~enabled
       THEN [go |-> FALSE, cache_read |-> FALSE,
             result |-> [success |-> FALSE, error |-> <<ERR_NOT_ENABLED>>]]
       ELSE IF ~safety.allowed
       THEN [go |-> FALSE, cache_read |-> FALSE,
             result |-> [success |-> FALSE, error |-> <<ERR_CONTENT>>,
                         reason |-> safety.reason]]
       ELSE IF use_cache /\ cache_key \in DOMAIN search_cache
       THEN [go |-> FALSE, cache_read |-> TRUE,
             result |-> [success |-> TRUE, results |-> search_cache[cache_key],
                         cached |-> TRUE]]
       ELSE [go |-> TRUE, cache_read |-> use_cache, result |-> Pending]

SearchCall(query, engine, max_results, use_cache) ==
    /\ pc = "idle"
    /\ calls < MaxCalls
    /\ calls' = calls + 1
    /\ req' = [op |-> "search", query |-> query, engine |-> engine,
               max_results |-> max_results, use_cache |-> use_cache]
    /\ LET entry == SearchEntry(query, engine, use_cache)
       IN /\ pc' = IF entry.go THEN "search_loop" ELSE "idle"
          /\ net' = [NetIdle EXCEPT !.cache_read = entry.cache_read]
          /\ result' = entry.result
    /\ UNCHANGED <<enabled, filter_enabled, search_cache, visited_urls,
                   fetched_ok, probe>>

\* await asyncio.sleep(1 * (attempt + 1)) in the except branch, 0 for none.
RetryDelay(raised, attempt) ==
    IF raised /\ attempt < max_retries - 1 THEN 1 * (attempt + 1) ELSE 0

\* One iteration of "for attempt in range(self._max_retries)": the GET, the
\* parse of a 200 response, the sleep after an exception.
AttemptStep(n, engine, max_results, outcome) ==
    LET parsed == IF outcome.kind = "ok"
                  THEN ParseResults(engine, outcome.page, max_results)
                  ELSE n.results
        raised == outcome.kind \in {"timeout", "error"}
    IN [gets |-> n.gets + 1,
        attempt |-> n.attempt + 1,
        slept |-> RetryDelay(raised, n.attempt),
        outcome |-> outcome.kind,
        no200 |-> n.no200 /\ outcome.kind # "ok",
        results |-> parsed,
        cache_read |-> n.cache_read]

\* A plausible slip: a non-200 status ends the loop.
LoopDone_status_breaks(n) ==
    (n.outcome = "ok" /\ n.results # <<>>) \/ n.outcome = "status"
        \/ n.attempt >= max_retries

\* A plausible slip: the range is one attempt too long.
LoopDone_off_by_one(n) ==
    (n.outcome = "ok" /\ n.results # <<>>) \/ n.attempt > max_retries

\* The loop ends at the break after a non-empty parse or when the range is
\* exhausted.
LoopDone(n) == (n.outcome = "ok" /\ n.results # <<>>) \/ n.attempt >= max_retries

\* What search returns once _fetch_search_results has returned results.
SearchReturn(query, engine, results) ==
    [success |-> TRUE, results |-> results, query |-> query,
     engine |-> NormalizeEngine(engine)]

SearchAttempt(outcome) ==
    /\ pc = "search_loop"
    /\ LET n == AttemptStep(net, NormalizeEngine(req.engine), req.max_results, outcome)
           final == Prefix(n.results, req.max_results)
       IN /\ net' = n
          /\ IF LoopDone(n)
             THEN /\ pc' = "idle"
                  /\ search_cache' =
                        CachePut(search_cache, SearchCacheKey(req.engine, req.query), final)
                  /\ result' = SearchReturn(req.query, req.engine, final)
             ELSE /\ pc' = "search_loop"
                  /\ UNCHANGED <<search_cache, result>>
    /\ UNCHANGED <<enabled, filter_enabled, visited_urls, req, calls, fetched_ok,
                   probe>>

NextSearch ==
    \/ \E v \in BOOLEAN : ConfigSet(v)
    \/ \E q \in Queries, e \in Engines, n \in 0..MaxN, c \in BOOLEAN :
          SearchCall(q, e, n, c)
    \/ \E o \in SearchOutcomes : SearchAttempt(o)

SpecSearch == Init /\ [][NextSearch]_vars

---------------------------------------------------------------------------
(* WebBrowser.fetch_page.                                                  *)

\* The URLs callers pass to fetch_page.
FetchUrls ==
    { UrlExample, UrlDocs, UrlLoopback, UrlPrivate, UrlLinkLocal, UrlFtp, UrlNoHost }

\* The scheme urljoin gives the joined URL: the href's own, else the base's.
JoinScheme(b, h) == IF h.scheme = <<>> THEN b.scheme ELSE h.scheme

\* urljoin on the parsed base b and the parsed href h, with the joined
\* scheme and the base's scheme://netloc.
UrlJoinParts(base, href, b, h, scheme, origin) ==
    IF href = <<>> THEN base
    ELSE IF scheme # b.scheme \/ scheme \notin {<<"http">>, <<"https">>, <<"ftp">>, <<"file">>}
    THEN href
    ELSE IF h.netloc # <<>>
    THEN scheme \o <<":", "//">> \o h.netloc \o h.path
    ELSE IF h.path = <<>> THEN origin \o b.path
    ELSE IF h.path[1] \in {"/", "//"} THEN origin \o h.path
    ELSE origin \o (IF RFind(b.path, {"/"}) = 0 THEN <<"/">>
                    ELSE Prefix(b.path, RFind(b.path, {"/"}))) \o h.path

UrlJoinParsed(base, href, b, h) ==
    UrlJoinParts(base, href, b, h, JoinScheme(b, h),
                 b.scheme \o <<":", "//">> \o b.netloc)

\* urllib.parse.urljoin(base, href) for a base with a scheme and a netloc
\* and an href without "." and ".." segments, query or fragment.
urljoin(base, href) == UrlJoinParsed(base, href, urlparse(base), urlparse(href))

\* A fetched page: len(html), the text left after the script, style, nav,
\* footer and header elements are removed, and the anchors with an href.
PageA ==
    [html_len |-> 120, text |-> TextNews,
     anchors |-> << Anchor(UrlDocs, TextDocs),
                    Anchor(UrlLoopback, TextGo),
                    Anchor(<<"/", "secret">>, TextAbout),
                    Anchor(<<"//", "127", ".", "0", ".", "0", ".", "1">>, TextNews),
                    Anchor(<<"javascript", ":", "secret">>, TextGo),
                    Anchor(UrlNoHost, TextDocs) >>]

PageB == [html_len |-> 64, text |-> TextDocs, anchors |-> <<>>]

FetchPages == { PageA, PageB }

\* What the single HTTP GET of fetch_page ends in.  For a URL without a
\* host the client raises before anything is sent (aiohttp.InvalidURL), so
\* the responses below take "error" as the only outcome for such a URL.
FetchOutcomes ==
    { [kind |-> k, page |-> PageB] : k \in {"status", "timeout", "error"} }
    \cup { [kind |-> "ok", page |-> p] : p \in FetchPages }

\* The status code of a response that is not 200.
StatusCode == "404"

\* The links list: every anchor's href joined to the page URL, kept when
\* _is_safe_url accepts it.
ExtractLinks(url, anchors) ==
    LET joined == [i \in 1..Len(anchors) |->
                      [text |-> anchors[i].text,
                       url |-> urljoin(url, anchors[i].href)]]
        IsSafeLink(link) == is_safe_url(link.url)
    IN SelectSeq(joined, IsSafeLink)

\* The data dictionary fetch_page builds from a 200 response.
PageData(url, page, extract_text, extract_links) ==
    [url |-> url, status |-> 200, content_length |-> page.html_len]
    @@ (IF extract_text THEN [text |-> page.text] ELSE EmptyCache)
    @@ (IF extract_links THEN [links |-> ExtractLinks(url, page.anchors)] ELSE EmptyCache)

\* A plausible slip: fetch_page goes to the cache and the network without
\* checking the URL.
FetchEntry_unchecked(url, use_cache) ==
    IF ~enabled
    THEN [go |-> FALSE, cache_read |-> FALSE,
          result |-> [success |-> FALSE, error |-> <<ERR_NOT_ENABLED>>]]
    ELSE IF use_cache /\ url \in DOMAIN visited_urls
    THEN [go |-> FALSE, cache_read |-> TRUE,
          result |-> [cached |-> TRUE] @@ visited_urls[url]
                     @@ [success |-> TRUE, url |-> url]]
    ELSE [go |-> TRUE, cache_read |-> use_cache, result |-> Pending]

\* A plausible slip: the lookup does not test use_cache.
FetchEntry_always_cached(url, use_cache) ==
    IF ~enabled
    THEN [go |-> FALSE, cache_read |-> FALSE,
          result |-> [success |-> FALSE, error |-> <<ERR_NOT_ENABLED>>]]
    ELSE IF ~is_safe_url(url)
    THEN [go |-> FALSE, cache_read |-> FALSE,
          result |-> [success |-> FALSE, error |-> <<ERR_UNSAFE_URL>>]]
    ELSE IF url \in DOMAIN visited_urls
    THEN [go |-> FALSE, cache_read |-> TRUE,
          result |-> [cached |-> TRUE] @@ visited_urls[url]
                     @@ [success |-> TRUE, url |-> url]]
    ELSE [go |-> TRUE, cache_read |-> FALSE, result |-> Pending]

\* The part of fetch_page before the await: the capability switch, the URL
\* check and the cache lookup.
FetchEntry(url, use_cache) ==
    IF ~enabled
    THEN [go |-> FALSE, cache_read |-> FALSE,
          result |-> [success |-> FALSE, error |-> <<ERR_NOT_ENABLED>>]]
    ELSE IF ~is_safe_url(url)
    THEN [go |-> FALSE, cache_read |-> FALSE,
          result |-> [success |-> FALSE, error |-> <<ERR_UNSAFE_URL>>]]
    ELSE IF use_cache /\ url \in DOMAIN visited_urls
    THEN [go |-> FALSE, cache_read |-> TRUE,
          result |-> [cached |-> TRUE] @@ visited_urls[url]
                     @@ [success |-> TRUE, url |-> url]]
    ELSE [go |-> TRUE, cache_read |-> use_cache, result |-> Pending]

FetchCall(url, extract_text, extract_links, use_cache) ==
    /\ pc = "idle"
    /\ calls < MaxCalls
    /\ calls' = calls + 1
    /\ req' = [op |-> "fetch_page", url |-> url, extract_text |-> extract_text,
               extract_links |-> extract_links, use_cache |-> use_cache]
    /\ \E entry \in { FetchEntry(url, use_cache) } :
          /\ pc' = IF entry.go THEN "fetch_get" ELSE "idle"
          /\ net' = [NetIdle EXCEPT !.cache_read = entry.cache_read]
          /\ result' = entry.result
          /\ fetched_ok' = IF ~entry.go /\ entry.result.success
                           THEN fetched_ok \cup {url} ELSE fetched_ok
    /\ UNCHANGED <<enabled, filter_enabled, search_cache, visited_urls, probe>>

\* A plausible slip: no clause of its own for asyncio.TimeoutError, so a
\* timeout is reported by the general clause.
FetchReturn_no_timeout_clause(url, outcome, data) ==
    IF outcome.kind = "status"
    THEN [success |-> FALSE, error |-> <<ERR_HTTP, StatusCode>>, url |-> url]
    ELSE IF outcome.kind \in {"timeout", "error"}
    THEN [success |-> FALSE, error |-> <<ERR_EXCEPTION>>, url |-> url]
    ELSE [success |-> TRUE] @@ data

\* What fetch_page returns for the outcome of its GET.
FetchReturn(url, outcome, data) ==
    IF outcome.kind = "status"
    THEN [success |-> FALSE, error |-> <<ERR_HTTP, StatusCode>>, url |-> url]
    ELSE IF outcome.kind = "timeout"
    THEN [success |-> FALSE, error |-> <<ERR_TIMEOUT>>, url |-> url]
    ELSE IF outcome.kind = "error"
    THEN [success |-> FALSE, error |-> <<ERR_EXCEPTION>>, url |-> url]
    ELSE [success |-> TRUE] @@ data

\* A plausible slip: fetch_page repeats a failed GET like the search loop.
FetchResponse_retrying(outcome) ==
    /\ pc = "fetch_get"
    /\ UrlHostname(req.url) = <<>> => outcome.kind = "error"
    /\ pc' = IF outcome.kind # "ok" /\ net.gets + 1 < max_retries
             THEN "fetch_get" ELSE "idle"
    /\ net' = [net EXCEPT !.gets = @ + 1, !.attempt = @ + 1,
                          !.outcome = outcome.kind,
                          !.no200 = outcome.kind # "ok"]
    /\ \E data \in { IF outcome.kind = "ok"
                     THEN PageData(req.url, outcome.page, req.extract_text,
                                   req.extract_links)
                     ELSE EmptyCache } :
          /\ result' = IF outcome.kind # "ok" /\ net.gets + 1 < max_retries
                       THEN Pending
                       ELSE FetchReturn(req.url, outcome, data)
          /\ visited_urls' = IF outcome.kind = "ok"
                             THEN CachePut(visited_urls, req.url, data)
                             ELSE visited_urls
    /\ fetched_ok' = IF outcome.kind = "ok"
                     THEN fetched_ok \cup {req.url} ELSE fetched_ok
    /\ UNCHANGED <<enabled, filter_enabled, search_cache, req, calls, probe>>

FetchResponse(outcome) ==
    /\ pc = "fetch_get"
    /\ UrlHostname(req.url) = <<>> => outcome.kind = "error"
    /\ pc' = "idle"
    /\ net' = [net EXCEPT !.gets = @ + 1, !.attempt = @ + 1,
                          !.outcome = outcome.kind,
                          !.no200 = outcome.kind # "ok"]
    /\ \E data \in { IF outcome.kind = "ok"
                     THEN PageData(req.url, outcome.page, req.extract_text,
                                   req.extract_links)
                     ELSE EmptyCache } :
          /\ result' = FetchReturn(req.url, outcome, data)
          /\ visited_urls' = IF outcome.kind = "ok"
                             THEN CachePut(visited_urls, req.url, data)
                             ELSE visited_urls
    /\ fetched_ok' = IF outcome.kind = "ok"
                     THEN fetched_ok \cup {req.url} ELSE fetched_ok
    /\ UNCHANGED <<enabled, filter_enabled, search_cache, req, calls, probe>>

NextFetch ==
    \/ \E u \in FetchUrls, t \in BOOLEAN, l \in BOOLEAN, c \in BOOLEAN :
          FetchCall(u, t, l, c)
    \/ \E o \in FetchOutcomes : FetchResponse(o)

SpecFetch == Init /\ [][NextFetch]_vars

---------------------------------------------------------------------------
(* The instance under any sequence of calls. *)

Next ==
    \/ \E v \in BOOLEAN : ConfigSet(v)
    \/ \E q \in Queries, e \in Engines, n \in 0..MaxN, c \in BOOLEAN :
          SearchCall(q, e, n, c)
    \/ \E o \in SearchOutcomes : SearchAttempt(o)
    \/ \E u \in FetchUrls, t \in BOOLEAN, l \in BOOLEAN, c \in BOOLEAN :
          FetchCall(u, t, l, c)
    \/ \E o \in FetchOutcomes : FetchResponse(o)

Spec == Init /\ [][Next]_vars

---------------------------------------------------------------------------
(* _is_safe_url applied to one URL. *)

InitSafe ==
    /\ enabled = TRUE
    /\ filter_enabled = FALSE
    /\ search_cache = EmptyCache
    /\ visited_urls = EmptyCache
    /\ pc = "idle"
    /\ req = NoRequest
    /\ net = NetIdle
    /\ result = Pending
    /\ calls = 0
    /\ fetched_ok = {}
    /\ probe \in { [url |-> u, done |-> FALSE, safe |-> FALSE] : u \in ProbeUrls }

ApplyIsSafeUrl ==
    /\ ~probe.done
    /\ probe' = [probe EXCEPT !.done = TRUE, !.safe = is_safe_url(probe.url)]
    /\ UNCHANGED <<enabled, filter_enabled, search_cache, visited_urls, pc, req,
                   net, result, calls, fetched_ok>>

NextSafe == ApplyIsSafeUrl

SpecSafe == InitSafe /\ [][NextSafe]_vars

---------------------------------------------------------------------------
(* WebBrowser._summarize_collected_info.  The summary is the sequence of   *)
(* the lines that "\n".join puts together; a line is a sequence of text    *)
(* pieces.                                                                 *)

SUM_NONE_HEAD == "no information found about '"    \* "未找到关于 '"
SUM_NONE_TAIL == "'."                              \* "' 的相关信息。"
SUM_TITLE == "## collection summary"               \* "## 信息收集摘要"
SUM_QUERY == "**query**: "                         \* "**查询**: "
SUM_COUNT == "**sources**: "                       \* "**来源数量**: "
SUM_SOURCES == "### main sources:"                 \* "### 主要信息来源:"
SUM_URL == "   - URL: "
SUM_DESC == "   - description: "                   \* "   - 描述: "
SUM_STATS == "### statistics"                      \* "### 统计信息"
SUM_TOTAL == "- total content length: "            \* "- 总内容长度: "
SUM_CHARS == " characters"                         \* " 字符"
ERR_COLLECT_FAILED == "collection failed"          \* '信息收集失败'

\* desc = info.get('source_description', '')[:200]
DescLimit == 200

\* f"{n:,}" for 0 <= n < 1000000.
Thousands(n) ==
    IF n < 1000 THEN <<ToString(n)>>
    ELSE LET low == n % 1000
         IN <<ToString(n \div 1000), ",",
              (IF low < 10 THEN "00" ELSE IF low < 100 THEN "0" ELSE "")
                  \o ToString(low)>>

\* The three lines of source i.
SourceLines(i, info) ==
    << <<ToString(i), ". **">> \o info.source_title \o <<"**">>,
       <<SUM_URL>> \o info.source_url,
       <<SUM_DESC>> \o Prefix(info.source_description, DescLimit)
           \o (IF Len(Prefix(info.source_description, DescLimit)) >= DescLimit
               THEN <<"...">> ELSE <<>>) >>

RECURSIVE AllSourceLines(_, _)
AllSourceLines(i, info_list) ==
    IF i > Len(info_list) THEN <<>>
    ELSE SourceLines(i, info_list[i]) \o AllSourceLines(i + 1, info_list)

RECURSIVE TotalLength(_)
TotalLength(info_list) ==
    IF info_list = <<>> THEN 0
    ELSE Head(info_list).content_length + TotalLength(Tail(info_list))

\* A plausible slip: the branch for an empty list is left out.
summarize_collected_info_no_empty_branch(info_list, query) ==
    << <<SUM_TITLE>>, <<SUM_QUERY>> \o query,
       <<SUM_COUNT, ToString(Len(info_list))>>, <<>>, <<SUM_SOURCES>> >>
    \o AllSourceLines(1, info_list)
    \o << <<>>, <<SUM_STATS>>,
          <<SUM_TOTAL>> \o Thousands(TotalLength(info_list)) \o <<SUM_CHARS>> >>

summarize_collected_info(info_list, query) ==
    IF info_list = <<>>
    THEN << <<SUM_NONE_HEAD>> \o query \o <<SUM_NONE_TAIL>> >>
    ELSE << <<SUM_TITLE>>, <<SUM_QUERY>> \o query,
            <<SUM_COUNT, ToString(Len(info_list))>>, <<>>, <<SUM_SOURCES>> >>
         \o AllSourceLines(1, info_list)
         \o << <<>>, <<SUM_STATS>>,
               <<SUM_TOTAL>> \o Thousands(TotalLength(info_list)) \o <<SUM_CHARS>> >>

---------------------------------------------------------------------------
(* WebBrowser.collect_information and WebBrowser.search_and_research.      *)
(*                                                                         *)
(* While one of them runs, req holds its arguments and its local           *)
(* variables: search_results, idx (the position in search_results[:max_    *)
(* pages] of the result being fetched), collected_info, round and          *)
(* all_results of search_and_research; fetches counts the page GETs of the *)
(* running collect_information, cancelled records that the task was       *)
(* cancelled, search_ok that the search step returned success, and         *)
(* fetch_log the position and the success of every fetch_page call of the  *)
(* running collect_information.  pc is the await the call is suspended at: "collect_search"  *)
(* (the search step), "collect_get" (a page GET), "collect_sleep" (the     *)
(* pacing delay), "research_sleep" (the delay after a round).              *)

\* result = await self.collect_information(current_query, max_pages=3)
ResearchMaxPages == 3

\* A result page whose first item has no href and whose second links to a
\* loopback address.
PageMixed ==
    [items |-> << Item(TRUE, TRUE, TextGo, <<>>, <<>>),
                  Item(TRUE, TRUE, TextDocs, UrlLoopback, TextAbout),
                  Item(TRUE, TRUE, TextAbout, UrlExample, <<>>) >>,
     links |-> <<>>]

\* What one GET of the search step of collect_information ends in.
CollectSearchOutcomes ==
    { [kind |-> k, page |-> PageEmpty] : k \in {"status", "timeout", "error"} }
    \cup { [kind |-> "ok", page |-> p] : p \in {PageEmpty, PageResults, PageMixed} }

Frame(op, query, max_pages, num_iterations) ==
    [op |-> op, query |-> query, max_pages |-> max_pages,
     num_iterations |-> num_iterations, round |-> 0, all_results |-> <<>>,
     search_results |-> <<>>, idx |-> 0, collected_info |-> <<>>,
     fetches |-> 0, cancelled |-> FALSE, search_ok |-> FALSE, fetch_log |-> <<>>]

\* Where a call stands after a step: the await it is suspended at or "idle",
\* its locals, what it returned, and the counters of its latest sub-call.
Out(p, f, r, n) == [pc |-> p, req |-> f, result |-> r, net |-> n]

\* A plausible slip: the loop runs over all of search_results.
Top_untruncated(f) == f.search_results

\* search_results[:max_pages]
Top(f) == Prefix(f.search_results, f.max_pages)

\* The first position from i on whose result has a url ("if not url:
\* continue"), Len + 1 when there is none.
NextIdx(results, i) ==
    LET cand == { j \in i..Len(results) : results[j].url # <<>> }
    IN IF cand = {} THEN Len(results) + 1
       ELSE CHOOSE j \in cand : \A k \in cand : j <= k

\* The entry appended to collected_info for a fetched result.
InfoEntry(sr, page_result) ==
    [source_title |-> sr.title,
     source_url |-> sr.url,
     source_description |-> sr.description,
     content |-> IF "text" \in DOMAIN page_result THEN page_result.text ELSE <<>>,
     content_length |-> IF "content_length" \in DOMAIN page_result
                        THEN page_result.content_length ELSE 0]

\* time.strftime('%Y-%m-%d %H:%M:%S'): the clock is not modelled.
CollectionTime == <<"Y-m-d H:M:S">>

\* What collect_information returns after its loop.
CollectResult(f) ==
    [success |-> TRUE,
     query |-> f.query,
     summary |-> summarize_collected_info(f.collected_info, f.query),
     sources |-> [i \in 1..Len(f.collected_info) |-> f.collected_info[i].source_url],
     detailed_info |-> f.collected_info,
     collection_time |-> CollectionTime]

RECURSIVE TotalSources(_)
TotalSources(all_results) ==
    IF all_results = <<>> THEN 0
    ELSE Len(Head(all_results).detailed_info) + TotalSources(Tail(all_results))

\* What search_and_research returns after its loop.
ResearchResult(f) ==
    [success |-> TRUE,
     original_query |-> f.query,
     iterations |-> Len(f.all_results),
     results |-> f.all_results,
     total_sources |-> TotalSources(f.all_results)]

\* A plausible slip: search_and_research hands on the failure of a round.
CollectFinish_failure_returned(f, r, n) ==
    IF f.op = "collect_information" THEN Out("idle", f, r, n)
    ELSE IF ~r.success THEN Out("idle", f, r, n)
    ELSE Out("research_sleep", [f EXCEPT !.all_results = Append(@, r)], Pending, n)

\* collect_information returns r: to its caller, or into the loop of
\* search_and_research, which breaks on a failure and otherwise appends r
\* and sleeps.
CollectFinish(f, r, n) ==
    IF f.op = "collect_information" THEN Out("idle", f, r, n)
    ELSE IF ~r.success THEN Out("idle", f, ResearchResult(f), n)
    ELSE Out("research_sleep", [f EXCEPT !.all_results = Append(@, r)], Pending, n)

\* A plausible slip: a failed fetch ends the loop.
CollectAfterFetch_stops_on_failure(f, j, page_result, n) ==
    IF ~page_result.success
    THEN CollectFinish(
             [f EXCEPT !.idx = j,
                       !.fetch_log = Append(@, [idx |-> j, success |-> FALSE])],
             CollectResult(f), n)
    ELSE Out("collect_sleep",
             [f EXCEPT !.idx = j,
                       !.collected_info = Append(@, InfoEntry(Top(f)[j], page_result)),
                       !.fetch_log = Append(@, [idx |-> j, success |-> TRUE])],
             Pending, n)

\* A plausible slip: the entry is appended whether or not the fetch
\* succeeded.
CollectAfterFetch_always_appends(f, j, page_result, n) ==
    Out("collect_sleep",
        [f EXCEPT !.idx = j,
                  !.collected_info = Append(@, InfoEntry(Top(f)[j], page_result)),
                  !.fetch_log = Append(@, [idx |-> j, success |-> page_result.success])],
        Pending, n)

\* fetch_page returned page_result for the result at position j: the entry
\* is appended on success, then the pacing delay starts.
CollectAfterFetch(f, j, page_result, n) ==
    Out("collect_sleep",
        [f EXCEPT !.idx = j,
                  !.collected_info = IF page_result.success
                                     THEN Append(@, InfoEntry(Top(f)[j], page_result))
                                     ELSE @,
                  !.fetch_log = Append(@, [idx |-> j, success |-> page_result.success])],
        Pending, n)

\* fetch_page(url, extract_text=True) was entered for the result at j.
CollectEntered(f, j, entry) ==
    IF entry.go
    THEN Out("collect_get", [f EXCEPT !.idx = j], Pending,
             [NetIdle EXCEPT !.cache_read = entry.cache_read])
    ELSE CollectAfterFetch(f, j, entry.result,
                           [NetIdle EXCEPT !.cache_read = entry.cache_read])

CollectAt(f, j, n) ==
    IF j > Len(Top(f)) THEN CollectFinish(f, CollectResult(f), n)
    ELSE CollectEntered(f, j, FetchEntry(Top(f)[j].url, TRUE))

\* The loop over search_results[:max_pages] from position i on.
CollectContinue(f, i, n) == CollectAt(f, NextIdx(Top(f), i), n)

\* A plausible slip: a failed search step is treated as an empty one.
AfterSearch_ignoring_failure(f, search_result, n) ==
    IF ~search_result.success THEN CollectContinue(f, 1, n)
    ELSE CollectContinue([f EXCEPT !.search_results = search_result.results,
                                   !.search_ok = TRUE], 1, n)

\* The search step returned search_result: "if not search_result.get(
\* 'success'): return search_result".
AfterSearch(f, search_result, n) ==
    IF ~search_result.success THEN CollectFinish(f, search_result, n)
    ELSE CollectContinue([f EXCEPT !.search_results = search_result.results,
                                   !.search_ok = TRUE], 1, n)

CollectSearchEntered(f, entry) ==
    IF entry.go
    THEN Out("collect_search", f, Pending,
             [NetIdle EXCEPT !.cache_read = entry.cache_read])
    ELSE AfterSearch(f, entry.result,
                     [NetIdle EXCEPT !.cache_read = entry.cache_read])

\* A plausible slip: the search step bypasses the cache.
CollectStart_search_uncached(f) ==
    CollectSearchEntered(
        [f EXCEPT !.search_results = <<>>, !.idx = 0, !.collected_info = <<>>,
                  !.fetches = 0, !.search_ok = FALSE, !.fetch_log = <<>>],
        SearchEntry(f.query, <<"baidu">>, FALSE))

\* The body of collect_information after the capability switch:
\* await self.search(query, max_results=max_pages), with the default engine
\* and use_cache.
CollectStart(f) ==
    CollectSearchEntered(
        [f EXCEPT !.search_results = <<>>, !.idx = 0, !.collected_info = <<>>,
                  !.fetches = 0, !.search_ok = FALSE, !.fetch_log = <<>>],
        SearchEntry(f.query, <<"baidu">>, TRUE))

\* The step moves the call to where o says.
Moves(o) ==
    /\ pc' = o.pc
    /\ req' = o.req
    /\ result' = o.result
    /\ net' = o.net

NotEnabled == [success |-> FALSE, error |-> <<ERR_NOT_ENABLED>>]

CollectCall(query, max_pages) ==
    /\ pc = "idle"
    /\ calls < MaxCalls
    /\ calls' = calls + 1
    /\ \E o \in { IF ~enabled
                  THEN Out("idle", Frame("collect_information", query, max_pages, 0),
                           NotEnabled, NetIdle)
                  ELSE CollectStart(Frame("collect_information", query, max_pages, 0)) } :
          Moves(o)
    /\ UNCHANGED <<enabled, filter_enabled, search_cache, visited_urls,
                   fetched_ok, probe>>

ResearchCall(query, num_iterations) ==
    /\ pc = "idle"
    /\ calls < MaxCalls
    /\ calls' = calls + 1
    /\ \E f \in { Frame("search_and_research", query, ResearchMaxPages,
                         num_iterations) } :
       \E o \in { IF ~enabled THEN Out("idle", f, NotEnabled, NetIdle)
                  ELSE IF num_iterations = 0
                  THEN Out("idle", f, ResearchResult(f), NetIdle)
                  ELSE CollectStart(f) } :
          Moves(o)
    /\ UNCHANGED <<enabled, filter_enabled, search_cache, visited_urls,
                   fetched_ok, probe>>

\* One attempt of the search step.
CollectSearchStep(f, n, final) ==
    IF LoopDone(n) THEN AfterSearch(f, SearchReturn(f.query, <<"baidu">>, final), n)
    ELSE Out("collect_search", f, Pending, n)

CollectSearchAttempt(outcome) ==
    /\ pc = "collect_search"
    /\ \E n \in { AttemptStep(net, <<"baidu">>, req.max_pages, outcome) } :
       \E final \in { Prefix(n.results, req.max_pages) } :
          /\ search_cache' =
                IF LoopDone(n)
                THEN CachePut(search_cache, SearchCacheKey(<<"baidu">>, req.query), final)
                ELSE search_cache
          /\ \E o \in { CollectSearchStep(req, n, final) } : Moves(o)
    /\ UNCHANGED <<enabled, filter_enabled, visited_urls, calls, fetched_ok, probe>>

\* The response to the page GET of the result at req.idx.
CollectFetchResponse(outcome) ==
    /\ pc = "collect_get"
    /\ \E url \in { Top(req)[req.idx].url } :
       /\ UrlHostname(url) = <<>> => outcome.kind = "error"
       /\ \E data \in { IF outcome.kind = "ok"
                     THEN PageData(url, outcome.page, TRUE, FALSE)
                     ELSE EmptyCache } :
          /\ visited_urls' = IF outcome.kind = "ok"
                             THEN CachePut(visited_urls, url, data)
                             ELSE visited_urls
          /\ fetched_ok' = IF outcome.kind = "ok"
                           THEN fetched_ok \cup {url} ELSE fetched_ok
          /\ \E o \in { CollectAfterFetch(
                            [req EXCEPT !.fetches = @ + 1], req.idx,
                            FetchReturn(url, outcome, data),
                            [net EXCEPT !.gets = @ + 1, !.attempt = @ + 1,
                                        !.outcome = outcome.kind,
                                        !.no200 = outcome.kind # "ok"]) } :
                Moves(o)
    /\ UNCHANGED <<enabled, filter_enabled, search_cache, calls, probe>>

\* await asyncio.sleep(0.5) is over: the loop goes on to the next result.
CollectPacingDone ==
    /\ pc = "collect_sleep"
    /\ \E o \in { CollectContinue(req, req.idx + 1, net) } : Moves(o)
    /\ UNCHANGED <<enabled, filter_enabled, search_cache, visited_urls, calls,
                   fetched_ok, probe>>

\* A plausible slip: the range is one round too long.
ResearchAfterSleep_extra_round(f, n) ==
    IF f.round <= f.num_iterations THEN CollectStart(f)
    ELSE Out("idle", f, ResearchResult(f), n)

\* The loop of search_and_research after its sleep: the next round, or the
\* return when the range is exhausted.
ResearchAfterSleep(f, n) ==
    IF f.round < f.num_iterations THEN CollectStart(f)
    ELSE Out("idle", f, ResearchResult(f), n)

\* await asyncio.sleep(1) is over.
ResearchSleepDone ==
    /\ pc = "research_sleep"
    /\ \E o \in { ResearchAfterSleep([req EXCEPT !.round = @ + 1], net) } : Moves(o)
    /\ UNCHANGED <<enabled, filter_enabled, search_cache, visited_urls, calls,
                   fetched_ok, probe>>

---------------------------------------------------------------------------
(* Cancellation of the task that runs collect_information or               *)
(* search_and_research.  asyncio raises CancelledError at the await the    *)
(* task is suspended at; CancelledError is a BaseException, which no       *)
(* "except Exception" of the module catches, so it leaves every frame.     *)

CancelPoints == {"collect_search", "collect_get", "collect_sleep", "research_sleep"}

\* The task ended with CancelledError.
CancelledError == [cancelled |-> TRUE]

\* A plausible slip: "except Exception" in fetch_page catches the
\* cancellation like any other failure of the GET, and the loop goes on.
CancelOutcome_swallowed(p, f, n) ==
    IF p = "collect_get"
    THEN CollectAfterFetch([f EXCEPT !.cancelled = TRUE], f.idx,
                           [success |-> FALSE, error |-> <<ERR_EXCEPTION>>,
                            url |-> Top(f)[f.idx].url], n)
    ELSE Out("idle", [f EXCEPT !.cancelled = TRUE], CancelledError, n)

CancelOutcome(p, f, n) == Out("idle", [f EXCEPT !.cancelled = TRUE], CancelledError, n)

Cancel ==
    /\ pc \in CancelPoints
    /\ \E o \in { CancelOutcome(pc, req, net) } : Moves(o)
    /\ UNCHANGED <<enabled, filter_enabled, search_cache, visited_urls, calls,
                   fetched_ok, probe>>

NextCollect ==
    \/ \E v \in BOOLEAN : ConfigSet(v)
    \/ \E q \in Queries, n \in 0..MaxN : CollectCall(q, n)
    \/ \E q \in Queries, n \in 0..MaxN : ResearchCall(q, n)
    \/ \E o \in CollectSearchOutcomes : CollectSearchAttempt(o)
    \/ \E o \in FetchOutcomes : CollectFetchResponse(o)
    \/ CollectPacingDone
    \/ ResearchSleepDone
    \/ Cancel

SpecCollect == Init /\ [][NextCollect]_vars

---------------------------------------------------------------------------
(* The caller changes a list it was handed.  search stores the list object *)
(* it returns (self._search_cache[cache_key] = results; 'results':         *)
(* results) and hands the stored object out again on a hit; fetch_page     *)
(* stores data and returns {'success': True, **data}, a new dict whose     *)
(* links value is the stored list object.  A change of the returned list   *)
(* is therefore a change of the cache entry.                               *)

Front(s) == SubSeq(s, 1, Len(s) - 1)

\* result['results'].pop()
CallerPopsResults ==
    /\ pc = "idle" /\ req.op = "search"
    /\ result.success /\ result.results # <<>>
    /\ result' = [result EXCEPT !.results = Front(@)]
    /\ search_cache' = [search_cache EXCEPT
                           ![SearchCacheKey(req.engine, req.query)] = Front(@)]
    /\ UNCHANGED <<enabled, filter_enabled, visited_urls, pc, req, net, calls,
                   fetched_ok, probe>>

\* result['links'].pop()
CallerPopsLinks ==
    /\ pc = "idle" /\ req.op = "fetch_page"
    /\ result.success /\ "links" \in DOMAIN result /\ result.links # <<>>
    /\ result' = [result EXCEPT !.links = Front(@)]
    /\ visited_urls' = [visited_urls EXCEPT ![req.url].links = Front(@)]
    /\ UNCHANGED <<enabled, filter_enabled, search_cache, pc, req, net, calls,
                   fetched_ok, probe>>

NextCaller ==
    \/ \E q \in Queries, e \in Engines, n \in 0..MaxN, c \in BOOLEAN :
          SearchCall(q, e, n, c)
    \/ \E o \in SearchOutcomes : SearchAttempt(o)
    \/ \E u \in FetchUrls, t \in BOOLEAN, l \in BOOLEAN, c \in BOOLEAN :
          FetchCall(u, t, l, c)
    \/ \E o \in FetchOutcomes : FetchResponse(o)
    \/ CallerPopsResults
    \/ CallerPopsLinks

SpecCaller == Init /\ [][NextCaller]_vars

---------------------------------------------------------------------------
(* The four operations in any order of calls: search with the largest     *)
(* max_results, fetch_page with extract_text set, search_and_research with *)
(* the largest num_iterations, the content filter as configured at the     *)
(* start.                                                                  *)

NextBrowser ==
    \/ \E q \in Queries, e \in {<<"baidu">>, <<"x">>}, c \in BOOLEAN :
          SearchCall(q, e, MaxN, c)
    \/ \E o \in SearchOutcomes : SearchAttempt(o)
    \/ \E u \in {UrlExample, UrlDocs, UrlLoopback}, l \in BOOLEAN, c \in BOOLEAN :
          FetchCall(u, TRUE, l, c)
    \/ \E o \in FetchOutcomes : FetchResponse(o)
    \/ \E q \in Queries, n \in 0..MaxN : CollectCall(q, n)
    \/ \E q \in Queries : ResearchCall(q, MaxN)
    \/ \E o \in CollectSearchOutcomes : CollectSearchAttempt(o)
    \/ \E o \in FetchOutcomes : CollectFetchResponse(o)
    \/ CollectPacingDone
    \/ ResearchSleepDone

SpecBrowser == Init /\ [][NextBrowser]_vars

---------------------------------------------------------------------------
(* search when every 200 response carries a page on which the engine's     *)
(* selector matches nothing while the page holds qualifying anchors.       *)

ParseEmptyOutcomes ==
    { [kind |-> "status", page |-> PageEmpty], [kind |-> "ok", page |-> PageLinksOnly] }

NextParseEmpty ==
    \/ \E q \in Queries, e \in Engines, n \in 0..MaxN, c \in BOOLEAN :
          SearchCall(q, e, n, c)
    \/ \E o \in ParseEmptyOutcomes : SearchAttempt(o)

SpecParseEmpty == Init /\ [][NextParseEmpty]_vars

---------------------------------------------------------------------------
(* The parsing strategies applied to one page: _parse_baidu_results,       *)
(* _parse_google_results, _parse_bing_results and _parse_generic_results   *)
(* as _fetch_search_results calls them for a 200 response.                 *)

\* Longest sequence of result blocks or anchors on a page.
MaxItems == 3

\* The inputs of a strategy: for baidu, google and bing a page of up to
\* MaxItems result blocks, each one complete, without a title element or
\* with a title anchor that has no href; for the generic strategy
\* (duckduckgo) a page of up to MaxItems anchors, each one qualifying, with
\* a text of two characters or pointing to a search engine.
ParseProbes ==
    LET blocks == { Item(TRUE, TRUE, TextNews, UrlNews, TextAbout),
                    Item(FALSE, TRUE, <<>>, UrlExample, TextAbout),
                    Item(TRUE, TRUE, TextDocs, <<>>, <<>>) }
        anchors == { Anchor(UrlDocs, TextDocs),
                     Anchor(UrlExample, TextGo),
                     Anchor(UrlGoogle, TextAbout) }
        SeqsOf(S) == UNION { [1..k -> S] : k \in 0..MaxItems }
    IN { [engine |-> e, page |-> [items |-> s, links |-> <<>>],
          max_results |-> n, done |-> FALSE, results |-> <<>>] :
            e \in { <<"baidu">>, <<"google">>, <<"bing">> },
            s \in SeqsOf(blocks), n \in 0..MaxN }
       \cup
       { [engine |-> <<"duckduckgo">>, page |-> [items |-> <<>>, links |-> s],
          max_results |-> n, done |-> FALSE, results |-> <<>>] :
            s \in SeqsOf(anchors), n \in 0..MaxN }

InitParse ==
    /\ enabled = TRUE
    /\ filter_enabled = FALSE
    /\ search_cache = EmptyCache
    /\ visited_urls = EmptyCache
    /\ pc = "idle"
    /\ req = NoRequest
    /\ net = NetIdle
    /\ result = Pending
    /\ calls = 0
    /\ fetched_ok = {}
    /\ probe \in ParseProbes

\* results = self._parse_<engine>_results(soup, max_results)
ApplyParseResults ==
    /\ ~probe.done
    /\ probe' = [probe EXCEPT !.done = TRUE,
                              !.results = ParseResults(probe.engine, probe.page,
                                                       probe.max_results)]
    /\ UNCHANGED <<enabled, filter_enabled, search_cache, visited_urls, pc, req,
                   net, result, calls, fetched_ok>>

NextParse == ApplyParseResults

SpecParse == InitParse /\ [][NextParse]_vars

---------------------------------------------------------------------------
(* _summarize_collected_info applied to one list of collected sources.     *)

\* The inputs: lists of one to MaxItems sources whose descriptions have 0,
\* DescLimit - 1, DescLimit and DescLimit + 1 characters.
SummaryProbes ==
    LET Desc(n) == [i \in 1..n |-> "d"]
        infos == { [source_title |-> TextNews, source_url |-> UrlNews,
                    source_description |-> Desc(n), content |-> TextDocs,
                    content_length |-> 64] :
                      n \in {0, DescLimit - 1, DescLimit, DescLimit + 1} }
    IN { [info_list |-> s, query |-> <<"w">>, done |-> FALSE, summary |-> <<>>] :
            s \in UNION { [1..k -> infos] : k \in 1..MaxItems } }

InitSummary ==
    /\ enabled = TRUE
    /\ filter_enabled = FALSE
    /\ search_cache = EmptyCache
    /\ visited_urls = EmptyCache
    /\ pc = "idle"
    /\ req = NoRequest
    /\ net = NetIdle
    /\ result = Pending
    /\ calls = 0
    /\ fetched_ok = {}
    /\ probe \in SummaryProbes

\* summary = self._summarize_collected_info(collected_info, query)
ApplySummarize ==
    /\ ~probe.done
    /\ probe' = [probe EXCEPT !.done = TRUE,
                              !.summary = summarize_collected_info(probe.info_list,
                                                                   probe.query)]
    /\ UNCHANGED <<enabled, filter_enabled, search_cache, visited_urls, pc, req,
                   net, result, calls, fetched_ok>>

NextSummary == ApplySummarize

SpecSummary == InitSummary /\ [][NextSummary]_vars

---------------------------------------------------------------------------
(* The URL search requests: SEARCH_ENGINES[engine].format(query=           *)
(* query.replace(' ', '+')) applied to one engine and one query text.      *)

\* The inputs: every engine identifier, registered or not, and the query
\* texts of one to MaxItems characters out of a letter, the space and the
\* characters '&', '#' and '+'.
UrlProbes ==
    { [engine |-> e, query |-> q, done |-> FALSE, url |-> <<>>] :
         e \in DOMAIN SEARCH_ENGINES \cup { <<"x">> },
         q \in UNION { [1..k -> {"w", " ", "&", "#", "+"}] : k \in 1..MaxItems } }

InitUrl ==
    /\ enabled = TRUE
    /\ filter_enabled = FALSE
    /\ search_cache = EmptyCache
    /\ visited_urls = EmptyCache
    /\ pc = "idle"
    /\ req = NoRequest
    /\ net = NetIdle
    /\ result = Pending
    /\ calls = 0
    /\ fetched_ok = {}
    /\ probe \in UrlProbes

ApplySearchUrl ==
    /\ ~probe.done
    /\ probe' = [probe EXCEPT !.done = TRUE,
                              !.url = SearchUrl(probe.engine, probe.query)]
    /\ UNCHANGED <<enabled, filter_enabled, search_cache, visited_urls, pc, req,
                   net, result, calls, fetched_ok>>

NextUrl == ApplySearchUrl

SpecUrl == InitUrl /\ [][NextUrl]_vars

---------------------------------------------------------------------------
(* search with engine identifiers and query texts that hold ':': the cache *)
(* key is f"{engine}:{query}" for the identifier as the caller passed it.  *)

NextCacheKeys ==
    \/ \E e \in { <<"a">>, <<"a", ":", "b">>, <<"baidu">>, <<"x">> },
          q \in { <<"c">>, <<"b", ":", "c">>, <<"w">> }, c \in BOOLEAN :
          SearchCall(q, e, MaxN, c)
    \/ \E o \in SearchOutcomes : SearchAttempt(o)

SpecCacheKeys == Init /\ [][NextCacheKeys]_vars

---------------------------------------------------------------------------
(* Two tasks that call fetch_page on one instance.  A task runs until its  *)
(* await: the entry of fetch_page (capability switch, URL check, cache     *)
(* lookup) is one step, the rest of the call after the response another,   *)
(* and the steps of the two tasks interleave.  pc, req, net and result     *)
(* hold one value per task; the caches belong to the instance.             *)

Tasks == {"t1", "t2"}

InitTasks ==
    /\ enabled = TRUE
    /\ filter_enabled = FALSE
    /\ search_cache = EmptyCache
    /\ visited_urls = EmptyCache
    /\ pc = [t \in Tasks |-> "idle"]
    /\ req = [t \in Tasks |-> NoRequest]
    /\ net = [t \in Tasks |-> NetIdle]
    /\ result = [t \in Tasks |-> Pending]
    /\ calls = 0
    /\ fetched_ok = {}
    /\ probe = NoProbe

TaskFetchCall(t, url, extract_text, extract_links, use_cache) ==
    /\ pc[t] = "idle"
    /\ calls < MaxCalls
    /\ calls' = calls + 1
    /\ req' = [req EXCEPT ![t] =
                  [op |-> "fetch_page", url |-> url, extract_text |-> extract_text,
                   extract_links |-> extract_links, use_cache |-> use_cache]]
    /\ \E entry \in { FetchEntry(url, use_cache) } :
          /\ pc' = [pc EXCEPT ![t] = IF entry.go THEN "fetch_get" ELSE "idle"]
          /\ net' = [net EXCEPT ![t] = [NetIdle EXCEPT !.cache_read = entry.cache_read]]
          /\ result' = [result EXCEPT ![t] = entry.result]
          /\ fetched_ok' = IF ~entry.go /\ entry.result.success
                           THEN fetched_ok \cup {url} ELSE fetched_ok
    /\ UNCHANGED <<enabled, filter_enabled, search_cache, visited_urls, probe>>

TaskFetchResponse(t, outcome) ==
    /\ pc[t] = "fetch_get"
    /\ UrlHostname(req[t].url) = <<>> => outcome.kind = "error"
    /\ pc' = [pc EXCEPT ![t] = "idle"]
    /\ net' = [net EXCEPT ![t].gets = @ + 1, ![t].attempt = @ + 1,
                          ![t].outcome = outcome.kind,
                          ![t].no200 = outcome.kind # "ok"]
    /\ \E data \in { IF outcome.kind = "ok"
                     THEN PageData(req[t].url, outcome.page, req[t].extract_text,
                                   req[t].extract_links)
                     ELSE EmptyCache } :
          /\ result' = [result EXCEPT ![t] = FetchReturn(req[t].url, outcome, data)]
          /\ visited_urls' = IF outcome.kind = "ok"
                             THEN CachePut(visited_urls, req[t].url, data)
                             ELSE visited_urls
    /\ fetched_ok' = IF outcome.kind = "ok"
                     THEN fetched_ok \cup {req[t].url} ELSE fetched_ok
    /\ UNCHANGED <<enabled, filter_enabled, search_cache, req, calls, probe>>

NextTasks ==
    \/ \E t \in Tasks, u \in {UrlExample, UrlDocs}, l \in BOOLEAN, c \in BOOLEAN :
          TaskFetchCall(t, u, TRUE, l, c)
    \/ \E t \in Tasks, o \in FetchOutcomes : TaskFetchResponse(t, o)

SpecTasks == InitTasks /\ [][NextTasks]_vars

---------------------------------------------------------------------------
(* Properties.                                                              *)

\* A call of the named operation has returned and no other was started since.
Returned(op) == pc = "idle" /\ req.op = op

\* The step starts a call of the named operation.
Starts(op) == calls' = calls + 1 /\ req'.op = op

\* The host is one _is_safe_url is to refuse: one of the four names, or a
\* literal IP address in a private, loopback or link-local range.
InternalHost(host) ==
    \/ host \in BlockedHostnames
    \/ LET ip == ip_address(host)
       IN ~ip.error /\ (is_private(ip) \/ is_loopback(ip) \/ is_link_local(ip))

\* The URLs C1 speaks of: the scheme is not http or https, or the host is
\* loopback, private or link-local.
UnsafeByClaim(url) ==
    \/ UrlScheme(url) \notin {<<"http">>, <<"https">>}
    \/ InternalHost(UrlHostname(url))

\* C1: on an enabled instance, fetch_page of a URL whose scheme is not
\* http/https or whose host is loopback, private or link-local returns at
\* once success:false with the unsafe-URL error, whatever the page cache
\* holds and whatever use_cache is; it issues no GET, does not look the URL
\* up in the page cache and leaves the page cache as it was.
C1_UnsafeUrlRejected ==
    [][ (enabled /\ Starts("fetch_page") /\ UnsafeByClaim(req'.url))
        => /\ pc' = "idle"
           /\ result' = [success |-> FALSE, error |-> <<ERR_UNSAFE_URL>>]
           /\ net'.gets = 0
           /\ ~net'.cache_read
           /\ visited_urls' = visited_urls ]_vars

\* An unsafe URL was refused with use_cache set while the page cache held
\* entries.
C1_Witness ==
    /\ enabled /\ Returned("fetch_page")
    /\ UnsafeByClaim(req.url) /\ req.use_cache
    /\ visited_urls # EmptyCache
    /\ result.error = <<ERR_UNSAFE_URL>>

\* C2: every search call that returns success:true returns at most
\* max_results results, also when it is answered from the cache after an
\* earlier call for the same engine and text with another max_results.
C2_ResultsBounded ==
    (Returned("search") /\ result.success)
        => Len(result.results) <= req.max_results

\* C3: when a search call with use_cache=true has returned success and the
\* next search call has the same engine and text and use_cache=true (and its
\* text passes the content check), that call returns at once, without a GET,
\* the same results list, whatever the outcomes of the first call's attempts
\* were.
C3_CacheIdempotent ==
    [][ ( /\ Returned("search") /\ req.use_cache /\ result.success
          /\ Starts("search")
          /\ req'.engine = req.engine /\ req'.query = req.query
          /\ req'.use_cache
          /\ check_content_safety(req'.query, filter_enabled).allowed )
        => /\ pc' = "idle"
           /\ net'.gets = 0
           /\ result'.success
           /\ result'.results = result.results ]_vars

\* The second of two such calls was answered from an entry that the first
\* call wrote after all its attempts had failed.
C3_Witness ==
    /\ Returned("search") /\ calls = 2 /\ req.use_cache
    /\ result.success /\ "cached" \in DOMAIN result
    /\ net.gets = 0
    /\ result.results = <<>>

\* C4: a search call issues at most max_retries HTTP GETs, whatever each
\* attempt ends in.
C4_AtMostMaxRetriesGets ==
    req.op = "search" => net.gets <= max_retries

\* A search call returned after max_retries GETs.
C4_Witness ==
    Returned("search") /\ net.gets = max_retries /\ net.outcome = "timeout"

\* C5: when every attempt of a search ended in a non-200 status, a timeout or
\* an exception, search returns success:false with the search-failed error
\* and a reason.
C5_AllAttemptsFailedReported ==
    (Returned("search") /\ net.gets > 0 /\ net.no200)
        => /\ ~result.success
           /\ result.error = <<ERR_SEARCH_FAILED>>
           /\ "reason" \in DOMAIN result

\* C6: once a fetch_page call for a URL has succeeded, every later
\* fetch_page call for it with use_cache=true returns at once, without a
\* GET, success:true with cached:true; and a fetch_page call that went to the
\* network issued exactly one GET.
C6_CachedAfterSuccess ==
    [][ /\ (Starts("fetch_page") /\ req'.url \in fetched_ok /\ req'.use_cache)
           => /\ pc' = "idle"
              /\ net'.gets = 0
              /\ result'.success
              /\ "cached" \in DOMAIN result' /\ result'.cached
        /\ (pc = "fetch_get" /\ pc' = "idle") => net'.gets = 1 ]_vars

\* The second call for a URL was answered from the entry of the first.
C6_Witness ==
    /\ Returned("fetch_page") /\ calls = 2 /\ req.use_cache
    /\ req.url \in fetched_ok
    /\ result.success /\ "cached" \in DOMAIN result
    /\ net.gets = 0

\* C7: in a successful fetch_page result, text is present only if the call
\* passed extract_text=true and links only if it passed extract_links=true,
\* also when the result comes from the cache.
C7_TextLinksOnlyIfRequested ==
    (Returned("fetch_page") /\ result.success)
        => /\ ("text" \in DOMAIN result => req.extract_text)
           /\ ("links" \in DOMAIN result => req.extract_links)

\* The fields of a live fetch_page result for an entry of the page cache.
LiveFetchFields(data) == {"success"} \cup DOMAIN data

\* C8: a cache hit returns the fields of the live call that wrote the entry
\* plus cached: success, results, query, engine for search; success, url,
\* status, content_length and the text/links of the entry for fetch_page.
C8_HitHasLiveShape ==
    /\ (Returned("search") /\ result.success /\ "cached" \in DOMAIN result)
          => DOMAIN result = {"success", "results", "query", "engine", "cached"}
    /\ (Returned("fetch_page") /\ result.success /\ "cached" \in DOMAIN result)
          => /\ DOMAIN result = LiveFetchFields(visited_urls[req.url]) \cup {"cached"}
             /\ {"success", "url", "status", "content_length"} \subseteq DOMAIN result

\* C9: on an enabled instance, a search whose text the content check rejects
\* returns at once success:false, without a GET, without the results of an
\* existing cache entry, and leaves the search cache as it was.
C9_RejectedBeforeNetworkAndCache ==
    [][ ( /\ enabled /\ Starts("search")
          /\ ~check_content_safety(req'.query, filter_enabled).allowed )
        => /\ pc' = "idle"
           /\ ~result'.success
           /\ result'.error = <<ERR_CONTENT>>
           /\ "results" \notin DOMAIN result'
           /\ "cached" \notin DOMAIN result'
           /\ net'.gets = 0
           /\ search_cache' = search_cache ]_vars

\* A search with use_cache=true was rejected although the cache held an
\* entry for its engine and text.
C9_Witness ==
    /\ enabled /\ Returned("search") /\ req.use_cache
    /\ ~result.success /\ result.error = <<ERR_CONTENT>>
    /\ SearchCacheKey(req.engine, req.query) \in DOMAIN search_cache

\* is_safe as C10 states it: an http or https scheme, a non-empty host that
\* is none of the four names and no literal IP address in a private,
\* loopback or link-local range.
SafeByClaim(url) ==
    /\ ~UrlParseRaises(url)
    /\ UrlScheme(url) \in {<<"http">>, <<"https">>}
    /\ UrlHostname(url) # <<>>
    /\ ~InternalHost(UrlHostname(url))

\* C10: _is_safe_url(url) is true exactly when the URL has an http or https
\* scheme and a non-empty host that is not localhost, 127.0.0.1, 0.0.0.0 or
\* ::1 and not a literal IP address in a private, loopback or link-local
\* range.
C10_IsSafeExactly ==
    probe.done => (probe.safe <=> SafeByClaim(probe.url))

\* C11: search, fetch_page and collect_information always return a result
\* with a success field, and a search or fetch_page call none of whose GETs
\* got a 200 response returns success:false with an error or a reason.
C11_FailuresReported ==
    /\ (pc = "idle" /\ req.op \in {"search", "fetch_page", "collect_information"})
          => "success" \in DOMAIN result
    /\ (pc = "idle" /\ req.op \in {"search", "fetch_page"}
            /\ net.gets > 0 /\ net.no200)
          => /\ ~result.success
             /\ {"error", "reason"} \cap DOMAIN result # {}

\* C12: a search none of whose attempts got a 200 response leaves the search
\* cache as it was, and a fetch_page whose GET ended in a non-200 status, a
\* timeout or an exception leaves the page cache as it was.
C12_CacheWrittenOnlyOnSuccess ==
    [][ /\ (pc = "search_loop" /\ pc' = "idle" /\ net'.no200)
              => search_cache' = search_cache
        /\ (pc = "fetch_get" /\ net'.no200)
              => visited_urls' = visited_urls ]_vars

\* C13: no step of search, fetch_page, collect_information or
\* search_and_research removes a key from the search cache or from the page
\* cache.
C13_KeysOnlyGrow ==
    [][ /\ DOMAIN search_cache \subseteq DOMAIN search_cache'
        /\ DOMAIN visited_urls \subseteq DOMAIN visited_urls' ]_vars

\* A second call has written to caches that already held other keys.
C13_Witness ==
    /\ calls = 2 /\ pc = "idle"
    /\ Cardinality(DOMAIN search_cache) >= 2
    /\ Cardinality(DOMAIN visited_urls) >= 2

\* A collect_information or search_and_research call has returned, not
\* been cancelled, and no other call was started since.
Completed(op) == pc = "idle" /\ req.op = op /\ ~req.cancelled

\* C14: collect_information fetches the results of search_results[:max_pages]
\* that have a url, each once and in order; detailed_info has one entry per
\* fetch that succeeded, in that order, with the result's url and title;
\* sources lists those urls and the summary's numbered title lines list
\* those titles, in the same order.
C14_CollectedInOrder ==
    (Completed("collect_information") /\ result.success)
        => LET top == Top(req)
               log == req.fetch_log
               IsOk(e) == e.success
               ok == SelectSeq(log, IsOk)
               IsTitleLine(line) == Len(line) >= 2 /\ line[2] = ". **"
           IN /\ { log[k].idx : k \in 1..Len(log) }
                    = { j \in 1..Len(top) : top[j].url # <<>> }
              /\ \A k \in 1..(Len(log) - 1) : log[k].idx < log[k + 1].idx
              /\ Len(result.detailed_info) = Len(ok)
              /\ \A k \in 1..Len(ok) :
                    /\ result.detailed_info[k].source_url = top[ok[k].idx].url
                    /\ result.detailed_info[k].source_title = top[ok[k].idx].title
              /\ result.sources = [k \in 1..Len(ok) |-> top[ok[k].idx].url]
              /\ SelectSeq(result.summary, IsTitleLine)
                    = [k \in 1..Len(ok) |->
                          <<ToString(k), ". **">> \o top[ok[k].idx].title \o <<"**">>]

\* collect_information returned two entries after a fetch of an earlier
\* call had failed or not.
C14_Witness ==
    /\ Completed("collect_information") /\ result.success
    /\ Len(result.detailed_info) = 2
    /\ req.fetches = 2

\* C15: when the search step succeeded and no page fetch did (there was no
\* result, or every fetch failed), collect_information returns success:true
\* with empty sources and detailed_info and a one-line summary that says
\* nothing was found and holds the query text.
C15_NothingCollected ==
    ( /\ Completed("collect_information") /\ req.search_ok
      /\ \A k \in 1..Len(req.fetch_log) : ~req.fetch_log[k].success )
        => /\ result.success
           /\ result.sources = <<>>
           /\ result.detailed_info = <<>>
           /\ Len(result.summary) = 1
           /\ result.summary[1][1] = SUM_NONE_HEAD
           /\ Contains(result.summary[1], req.query)

\* collect_information returned after page fetches that all failed.
C15_Witness ==
    /\ Completed("collect_information") /\ req.search_ok
    /\ req.fetch_log # <<>>
    /\ \A k \in 1..Len(req.fetch_log) : ~req.fetch_log[k].success
    /\ result.success /\ result.sources = <<>>

\* C16: when the search step of collect_information returns success:false,
\* collect_information returns that result as it is and starts no
\* fetch_page.
C16_SearchFailurePropagated ==
    [][ ( /\ enabled /\ Starts("collect_information")
          /\ ~SearchEntry(req'.query, <<"baidu">>, TRUE).go
          /\ ~SearchEntry(req'.query, <<"baidu">>, TRUE).result.success )
        => /\ pc' = "idle"
           /\ result' = SearchEntry(req'.query, <<"baidu">>, TRUE).result
           /\ req'.fetches = 0
           /\ req'.fetch_log = <<>>
           /\ visited_urls' = visited_urls ]_vars

\* collect_information returned the failure of the content check.
C16_Witness ==
    /\ enabled /\ Completed("collect_information")
    /\ ~result.success /\ result.error = <<ERR_CONTENT>>
    /\ "reason" \in DOMAIN result
    /\ req.fetches = 0

C18_GenericFallbackApplied ==
    ( /\ Returned("search") /\ result.success /\ "cached" \notin DOMAIN result
      /\ NormalizeEngine(req.engine) = <<"baidu">>
      /\ ~net.no200 /\ req.max_results > 0 )
        => result.results # <<>>

\* C19: a caller's change of a returned results or links list leaves the
\* search cache and the page cache as they were, so a later hit returns the
\* value as it was stored.
C19_CallerMutationNotShared ==
    [][ (pc = "idle" /\ pc' = "idle" /\ calls' = calls /\ result' # result)
        => /\ search_cache' = search_cache
           /\ visited_urls' = visited_urls ]_vars

\* C20: the step that cancels a collect_information call ends the call with
\* both caches as they were, and from then on the call issues no page GET
\* and changes no cache.
C20_CancelStopsFetches ==
    [][ /\ ( /\ req.op = "collect_information" /\ pc \in CancelPoints
             /\ req'.cancelled )
           => /\ pc' = "idle"
              /\ result' = CancelledError
              /\ req'.fetches = req.fetches
              /\ search_cache' = search_cache
              /\ visited_urls' = visited_urls
        /\ ( /\ req.op = "collect_information" /\ req.cancelled
             /\ calls' = calls )
           => /\ pc' = "idle"
              /\ req'.fetches = req.fetches
              /\ search_cache' = search_cache
              /\ visited_urls' = visited_urls ]_vars

\* A collect_information call was cancelled after it had written a page to
\* the cache and before it reached its last result.
C20_Witness ==
    /\ req.op = "collect_information" /\ req.cancelled /\ pc = "idle"
    /\ req.fetches >= 1
    /\ req.idx < Len(Top(req))
    /\ Top(req)[1].url \in DOMAIN visited_urls

\* C21: within one search call, after attempt k the call suspends for
\* base_delay * k (base_delay = 1) whenever attempt k + 1 follows, whatever
\* made attempt k fail, and it does not suspend after its last attempt.
C21_BackoffBetweenAttempts ==
    [][ (pc = "search_loop" /\ net'.attempt = net.attempt + 1)
        => IF pc' = "search_loop"
           THEN net'.slept = 1 * net'.attempt
           ELSE net'.slept = 0 ]_vars

\* C22: in a search call an attempt that ends with a non-200 status, a
\* timeout or an exception leaves the call in its loop whenever fewer than
\* max_retries attempts have been made; the attempt whose parse yields a
\* non-empty list ends the call, and no attempt before it yielded one.
C22_RetryUntilResults ==
    [][ (pc = "search_loop" /\ net'.attempt = net.attempt + 1)
        => /\ net.results = <<>>
           /\ net'.gets = net.gets + 1
           /\ ( /\ net'.outcome \in {"status", "timeout", "error"}
                /\ net'.attempt < max_retries )
              => pc' = "search_loop"
           /\ (net'.outcome = "ok" /\ net'.results # <<>>)
              => /\ pc' = "idle"
                 /\ result'.success
                 /\ result'.results = Prefix(net'.results, req.max_results) ]_vars

\* A search call returned results found by its second attempt: the first
\* attempt did not end the loop and the second did.
C22_Witness ==
    /\ Returned("search") /\ result.success
    /\ net.gets = 2 /\ net.attempt = 2
    /\ net.results # <<>>

\* C23: a fetch_page call issues at most one HTTP GET: the response to its
\* GET ends the call whatever the outcome, and a non-200 status, a timeout
\* or an exception ends it with success:false and the page cache unchanged.
C23_SingleGet ==
    [][ /\ req'.op = "fetch_page" => net'.gets <= 1
        /\ pc = "fetch_get"
           => /\ pc' = "idle"
              /\ net.gets = 0 /\ net'.gets = 1
              /\ net'.outcome \in {"status", "timeout", "error"}
                 => /\ ~result'.success
                    /\ visited_urls' = visited_urls ]_vars

\* A fetch_page call whose GET timed out has returned after that one GET.
C23_Witness ==
    /\ Returned("fetch_page")
    /\ net.gets = 1 /\ net.outcome = "timeout"
    /\ ~result.success

\* C24: a fetch_page call whose GET failed returns success:false with the
\* url and an error that tells the kind of failure: the status code after
\* a non-200 status, the timeout text after a timeout, the exception text
\* after another exception; the three errors differ, and a call whose GET
\* got a non-200 status never returns success.
C24_FailureKindsDistinct ==
    (Returned("fetch_page") /\ net.gets = 1 /\ net.outcome # "ok")
        => /\ ~result.success
           /\ DOMAIN result = {"success", "error", "url"}
           /\ result.url = req.url
           /\ net.outcome = "status" <=> result.error = <<ERR_HTTP, StatusCode>>
           /\ net.outcome = "timeout" <=> result.error = <<ERR_TIMEOUT>>
           /\ net.outcome = "error" <=> result.error = <<ERR_EXCEPTION>>

\* A fetch_page call answered with a non-200 status has returned the error
\* that holds the status code.
C24_Witness ==
    /\ Returned("fetch_page")
    /\ net.gets = 1 /\ net.outcome = "status"
    /\ result = [success |-> FALSE, error |-> <<ERR_HTTP, StatusCode>>, url |-> req.url]

\* C25: every link in the links list of a successful fetch_page result,
\* live or cached, is an anchor's text with its href resolved against the
\* page URL, and the resolved URL passes the safety validation: an http or
\* https scheme and a host that is not loopback, private or link-local.
C25_LinksResolvedAndSafe ==
    (Returned("fetch_page") /\ result.success /\ "links" \in DOMAIN result)
        => \A i \in 1..Len(result.links) :
              /\ \E p \in FetchPages : \E k \in 1..Len(p.anchors) :
                    result.links[i] = [text |-> p.anchors[k].text,
                                       url |-> urljoin(req.url, p.anchors[k].href)]
              /\ SafeByClaim(result.links[i].url)

\* The strategies of the engines that have one of their own.
EngineSpecific == { <<"baidu">>, <<"google">>, <<"bing">> }

\* The result blocks of the page that have a title and a link.
CompleteBlocks(page) ==
    LET Complete(item) == /\ item.title_elem /\ item.title # <<>>
                          /\ item.link_elem /\ item.href # <<>>
    IN SelectSeq(page.items, Complete)

\* C26: an engine-specific strategy applied to a page with M result blocks
\* that have a title and a link returns exactly min(max_results, M)
\* entries, wherever the blocks without a title or link stand.
C26_ExactlyMinEntries ==
    (probe.done /\ probe.engine \in EngineSpecific)
        => Len(probe.results) =
              Len(Prefix(CompleteBlocks(probe.page), probe.max_results))

\* C27: every entry an engine-specific strategy returns has a non-empty
\* title and a non-empty url.
C27_TitleAndUrlNonEmpty ==
    (probe.done /\ probe.engine \in EngineSpecific)
        => \A i \in 1..Len(probe.results) :
              /\ probe.results[i].title # <<>>
              /\ probe.results[i].url # <<>>

\* An anchor qualifies for the generic strategy: an absolute http or https
\* link whose host is no search-engine host and a text longer than 3.
QualifiesByClaim(a) ==
    /\ UrlScheme(a.href) \in {<<"http">>, <<"https">>}
    /\ UrlHostname(a.href) # <<>>
    /\ ~\E x \in ExcludedHosts : Contains(UrlHostname(a.href), x)
    /\ Len(a.text) > 3

\* C28: the generic strategy returns the first max_results qualifying
\* anchors of the whole page in document order: min(max_results, Q)
\* entries for Q qualifying anchors.
C28_GenericFirstQualifying ==
    (probe.done /\ probe.engine \notin EngineSpecific)
        => LET q == Prefix(SelectSeq(probe.page.links, QualifiesByClaim),
                           probe.max_results)
           IN probe.results =
                 [i \in 1..Len(q) |-> SearchResult(q[i].text, q[i].href, <<>>, "generic")]

\* C29: within one collect_information call (one round of
\* search_and_research) the page fetches come one after another in result
\* order: a fetch after the first starts only from the pacing delay that
\* follows the fetch before it, the response to a page GET leads to the
\* pacing delay whether the fetch failed or not, and when the delay is over
\* the next result with a url is fetched, or the loop ends when there is
\* none.
C29_SequentialPaced ==
    [][ ( /\ req.op \in {"collect_information", "search_and_research"}
          /\ calls' = calls
          /\ ~req'.cancelled
          /\ req'.round = req.round )
        => /\ (req.idx >= 1 /\ req'.idx # req.idx)
              => (pc = "collect_sleep" /\ req'.idx > req.idx)
           /\ pc = "collect_get"
              => /\ pc' = "collect_sleep"
                 /\ req'.idx = req.idx
                 /\ Len(req'.fetch_log) = Len(req.fetch_log) + 1
           /\ pc = "collect_sleep"
              => LET j == NextIdx(Top(req), req.idx + 1)
                 IN IF j <= Len(Top(req))
                    THEN /\ req'.idx = j
                         /\ pc' \in {"collect_get", "collect_sleep"}
                    ELSE /\ req'.idx = req.idx
                         /\ pc' \in {"idle", "research_sleep"} ]_vars

\* In a collect_information call the first fetch failed, the pacing delay
\* passed, and the second result was fetched.
C29_Witness ==
    /\ req.op = "collect_information" /\ pc = "collect_sleep"
    /\ Len(req.fetch_log) = 2
    /\ ~req.fetch_log[1].success
    /\ req.fetches = 2

\* C30: a collect_information call enters fetch_page at most max_pages
\* times, issues at most max_pages page GETs and returns at most max_pages
\* entries in detailed_info, also when the search step handed it more than
\* max_pages results from the cache.
C30_AtMostMaxPages ==
    req.op = "collect_information"
        => /\ Len(req.fetch_log) <= req.max_pages
           /\ req.fetches <= req.max_pages
           /\ req.idx <= req.max_pages
           /\ (Completed("collect_information") /\ result.success)
                 => Len(result.detailed_info) <= req.max_pages

\* collect_information returned after its search step had been answered
\* with more results than max_pages and it had fetched max_pages pages.
C30_Witness ==
    /\ Completed("collect_information") /\ result.success
    /\ req.max_pages >= 1
    /\ Len(req.search_results) > req.max_pages
    /\ Len(req.fetch_log) = req.max_pages
    /\ Len(result.detailed_info) = req.max_pages

\* C31: search_and_research on an enabled instance returns the rounds that
\* succeeded, in order: at most num_iterations of them, each one a
\* collect_information result for the original query; iterations is their
\* number, total_sources the sum of their detailed_info lengths, and it
\* returns fewer than num_iterations rounds only when the round after the
\* last returned one failed.
C31_ResearchRounds ==
    (Completed("search_and_research") /\ enabled)
        => /\ result.success
           /\ result.original_query = req.query
           /\ result.iterations = Len(result.results)
           /\ result.iterations <= req.num_iterations
           /\ \A k \in 1..Len(result.results) :
                 /\ result.results[k].success
                 /\ result.results[k].query = req.query
                 /\ Len(result.results[k].detailed_info) <= ResearchMaxPages
           /\ result.total_sources =
                 Cardinality({ <<k, i>> \in (1..Len(result.results)) \X (1..ResearchMaxPages) :
                                  i <= Len(result.results[k].detailed_info) })
           /\ result.iterations < req.num_iterations
                 => (~req.search_ok /\ req.round = result.iterations)

\* search_and_research returned two rounds that collected sources.
C31_Witness ==
    /\ Completed("search_and_research") /\ result.success
    /\ req.num_iterations = 2 /\ result.iterations = 2
    /\ result.total_sources >= 2
    /\ Len(result.results[2].detailed_info) >= 1

\* C32: in the summary the description line of every source shows the
\* description in full and without an ellipsis when it has at most 200
\* characters, and its first 200 characters followed by "..." when it has
\* more.
C32_EllipsisOnlyWhenCut ==
    probe.done
        => \A i \in 1..Len(probe.info_list) :
              LET d == probe.info_list[i].source_description
              IN probe.summary[5 + 3 * i] =
                    <<SUM_DESC>> \o (IF Len(d) <= 200 THEN d
                                     ELSE Prefix(d, 200) \o <<"...">>)

\* The query string of a URL as its receiver reads it: what stands between
\* the first '?' and the first '#'.
QueryString(url) ==
    LET hash == Find(url, {"#"})
        nofrag == IF hash = 0 THEN url ELSE Prefix(url, hash - 1)
    IN Suffix(nofrag, Find(nofrag, {"?"}) + 1)

\* The decoded value of the first parameter of a query string: what stands
\* between the first '=' and the first '&', with '+' read as a space.
FirstParamValue(qs) ==
    LET amp == Find(qs, {"&"})
        first == IF amp = 0 THEN qs ELSE Prefix(qs, amp - 1)
        value == Suffix(first, Find(first, {"="}) + 1)
    IN [i \in 1..Len(value) |-> IF value[i] = "+" THEN " " ELSE value[i]]

\* C33: the URL search requests is the engine's template followed by the
\* encoded query text: its query string has a single parameter and the
\* decoded value of that parameter is the whole query text.
C33_QueryCarriedWhole ==
    probe.done
        => /\ Prefix(probe.url, Len(SEARCH_ENGINES[NormalizeEngine(probe.engine)]))
                 = SEARCH_ENGINES[NormalizeEngine(probe.engine)]
           /\ Find(QueryString(probe.url), {"&"}) = 0
           /\ FirstParamValue(QueryString(probe.url)) = probe.query

\* C34: a search answered from the cache gets an entry that a search for
\* the same engine identifier and the same query text stored: with one
\* earlier search on the instance, a cache hit means that search had the
\* same pair.
C34_NoSharedEntry ==
    [][ ( /\ Starts("search") /\ calls = 1 /\ req.op = "search"
          /\ "cached" \in DOMAIN result' )
        => (req'.engine = req.engine /\ req'.query = req.query) ]_vars

\* C35: a search or fetch_page call with use_cache=false that gets past the
\* capability switch and its safety check goes to the network without
\* looking into the cache; when it returns success the cache entry of its
\* key is what it returned; and a call for the same key with use_cache=true
\* that follows it is answered from that entry without a GET.
C35_BypassesReadOnly ==
    [][ /\ ( /\ Starts("search") /\ ~req'.use_cache /\ enabled
             /\ check_content_safety(req'.query, filter_enabled).allowed )
           => /\ pc' = "search_loop"
              /\ ~net'.cache_read
              /\ search_cache' = search_cache
        /\ ( /\ pc = "search_loop" /\ pc' = "idle" /\ ~req.use_cache
             /\ result'.success )
           => /\ net'.gets >= 1
              /\ search_cache'[SearchCacheKey(req.engine, req.query)] = result'.results
        /\ ( /\ Returned("search") /\ ~req.use_cache /\ result.success
             /\ Starts("search") /\ req'.use_cache
             /\ req'.engine = req.engine /\ req'.query = req.query
             /\ check_content_safety(req'.query, filter_enabled).allowed )
           => /\ pc' = "idle"
              /\ net'.gets = 0
              /\ result'.success /\ "cached" \in DOMAIN result'
              /\ result'.results = result.results
        /\ ( /\ Starts("fetch_page") /\ ~req'.use_cache /\ enabled
             /\ is_safe_url(req'.url) )
           => /\ pc' = "fetch_get"
              /\ ~net'.cache_read
              /\ visited_urls' = visited_urls
        /\ (pc = "fetch_get" /\ ~req.use_cache /\ result'.success)
           => /\ net'.gets = 1
              /\ result' = [success |-> TRUE] @@ visited_urls'[req.url]
        /\ ( /\ Returned("fetch_page") /\ ~req.use_cache /\ result.success
             /\ Starts("fetch_page") /\ req'.use_cache
             /\ req'.url = req.url )
           => /\ pc' = "idle"
              /\ net'.gets = 0
              /\ result' = [cached |-> TRUE] @@ result ]_vars

\* The second call on the instance was a fetch_page with use_cache=false:
\* it went to the network and the cache entry of its URL is what it
\* returned.
C35_Witness ==
    /\ Returned("fetch_page") /\ calls = 2
    /\ ~req.use_cache /\ req.extract_links
    /\ net.gets = 1 /\ result.success
    /\ DOMAIN visited_urls = {req.url}
    /\ result = [success |-> TRUE] @@ visited_urls[req.url]

\* C36: in a search_and_research call, once the first round has succeeded
\* no search request is in flight in a later round, and a page request is
\* in flight in a later round only for a URL no fetch has succeeded for;
\* when every result of round 1 that has a url was collected, every later
\* round returns the same sources and total_sources is their number times
\* the number of rounds.
C36_LaterRoundsFromCache ==
    /\ (req.op = "search_and_research" /\ req.round >= 1)
          => /\ pc # "collect_search"
             /\ pc = "collect_get" => Top(req)[req.idx].url \notin fetched_ok
    /\ ( /\ Completed("search_and_research") /\ result.success
         /\ result.iterations >= 2
         /\ Len(result.results[1].sources)
               = Cardinality({ j \in 1..Len(Top(req)) : Top(req)[j].url # <<>> }) )
          => /\ \A k \in 1..result.iterations :
                   result.results[k].sources = result.results[1].sources
             /\ result.total_sources
                   = result.iterations * Len(result.results[1].sources)

\* search_and_research returned two rounds with the same two sources.
C36_Witness ==
    /\ Completed("search_and_research") /\ result.success
    /\ result.iterations = 2
    /\ Len(result.results[1].sources) = 2
    /\ result.results[2].sources = result.results[1].sources
    /\ result.total_sources = 4

\* C37: search_and_research on an enabled instance always returns
\* success:true; when its first round failed it returns iterations 0, an
\* empty results list and total_sources 0, with no error or reason field.
C37_FirstRoundFailureHidden ==
    (Completed("search_and_research") /\ enabled)
        => /\ result.success
           /\ DOMAIN result = {"success", "original_query", "iterations",
                               "results", "total_sources"}
           /\ (req.round = 0 /\ ~req.search_ok /\ req.num_iterations >= 1)
                 => /\ result.iterations = 0
                    /\ result.results = <<>>
                    /\ result.total_sources = 0

\* search_and_research returned after the content check had refused the
\* query in the first round.
C37_Witness ==
    /\ Completed("search_and_research") /\ enabled /\ filter_enabled
    /\ req.num_iterations >= 1 /\ req.round = 0 /\ ~req.search_ok
    /\ ~check_content_safety(req.query, filter_enabled).allowed
    /\ result.success /\ result.iterations = 0

\* C38: when a task calls fetch_page for a safe URL that is not in the page
\* cache while the call of another task for the same URL is waiting for
\* its response, the call goes to the network as well; the result of a
\* call that went to the network carries no cached field; and every
\* successful response leaves its own snapshot in the page cache, so that
\* after both calls the cache holds the snapshot of the one that completed
\* last.
C38_NoInFlightDeduplication ==
    [][ \A t \in Tasks : \A u \in Tasks \ {t} :
           /\ ( /\ pc[u] = "fetch_get" /\ pc[t] = "idle" /\ pc'[t] # pc[t]
                /\ req'[t].url = req[u].url
                /\ req'[t].url \notin DOMAIN visited_urls )
              => /\ pc'[t] = "fetch_get"
                 /\ pc'[u] = "fetch_get"
                 /\ visited_urls' = visited_urls
           /\ (pc[t] = "fetch_get" /\ pc'[t] = "idle")
              => /\ net'[t].gets = 1
                 /\ "cached" \notin DOMAIN result'[t]
                 /\ result'[t].success
                    => result'[t] = [success |-> TRUE] @@ visited_urls'[req[t].url] ]_vars

\* Two tasks fetched the same URL with use_cache set and both requests in
\* flight at once (neither found the other's entry), got different pages,
\* and the page cache holds the snapshot of one of them.
C38_Witness ==
    /\ pc = [t \in Tasks |-> "idle"]
    /\ req["t1"] # NoRequest /\ req["t2"] # NoRequest
    /\ req["t1"].url = req["t2"].url
    /\ req["t1"].use_cache /\ req["t2"].use_cache
    /\ net["t1"].gets = 1 /\ net["t2"].gets = 1
    /\ result["t1"].success /\ result["t2"].success
    /\ "cached" \notin DOMAIN result["t1"] /\ "cached" \notin DOMAIN result["t2"]
    /\ result["t1"] # result["t2"]
    /\ result["t2"] = [success |-> TRUE] @@ visited_urls[req["t2"].url]

\* C39: in every reachable state, every key of the page cache is a URL the
\* URL check accepts (http or https, a host, and the host not an internal
\* one), and the snapshot stored under it was made from a 200 response to
\* that URL: its status field is 200 and its url field is the key.
C39_CacheKeysSafeAndOk ==
    \A url \in DOMAIN visited_urls :
        /\ is_safe_url(url)
        /\ SafeByClaim(url)
        /\ visited_urls[url].status = 200
        /\ visited_urls[url].url = url

\* Two fetch_page calls have each cached a page after a 200 response.
C39_Witness ==
    /\ Cardinality(DOMAIN visited_urls) = 2
    /\ fetched_ok = DOMAIN visited_urls
    /\ pc = "idle"

\* C40: when the web_browsing capability is off, a call of search,
\* fetch_page, collect_information or search_and_research returns at once
\* success:false with the not-enabled error; it issues no GET, reads
\* neither cache, sleeps for nothing and leaves both caches as they were,
\* whatever the arguments (the query, the URL, use_cache) are.
C40_DisabledReturnsAtOnce ==
    [][ (~enabled /\ \E op \in {"search", "fetch_page", "collect_information",
                              "search_and_research"} : Starts(op))
        => /\ pc' = "idle"
           /\ result' = NotEnabled
           /\ net' = NetIdle
           /\ search_cache' = search_cache
           /\ visited_urls' = visited_urls ]_vars

\* With the capability off, the second of two calls, a search_and_research,
\* has come back with the not-enabled error, no request and empty caches.
C40_Witness ==
    /\ ~enabled
    /\ calls = 2
    /\ req.op = "search_and_research"
    /\ pc = "idle"
    /\ result = NotEnabled
    /\ net.gets = 0
    /\ search_cache = EmptyCache /\ visited_urls = EmptyCache

=============================================================================
